---- MODULE Spec2Model ----
(***************************************************************************)
(* Model of the SecretsManagementConfig operator: the Reconcile loop of    *)
(* the controller, its synchronizers, the deletion sub-flow, operator      *)
(* detection and the status/condition manager, running against a cluster   *)
(* API with optimistic concurrency.  One action per API call of the        *)
(* controller; the administrator, the platform and other actors are the    *)
(* environment.                                                            *)
(***************************************************************************)
EXTENDS Naturals, Sequences, FiniteSets, TLC

\* ------------------------------------------------------------------ bounds

\* Highest metadata.generation the administrator's spec edits may reach.
MaxGen == 2
\* Number of changes other actors make to owned objects, CRDs and the
\* Deployment's status in one behaviour.
MaxExt == 1
\* Highest value of the wall clock (0 is the zero time, the clock starts at 1).
MaxClock == 2
\* API failures injected in one behaviour.
MaxFaults == 2

\* ------------------------------------------------------- program constants

FinalizerName == "secrets-management.openshift.io/finalizer"
PluginNamespace == "openshift-secrets-management"
PluginName == "ocp-secrets-management"
DefaultPluginImage == "openshift.io/ocp-secrets-management:latest"
PluginPort == 9443
\* 5 * time.Minute, in minutes
RequeueInterval == 5
DefaultReplicas == 2
DefaultRolePrefix == "secrets-management"

PhasePending == "Pending"
PhaseDeploying == "Deploying"
PhaseReady == "Ready"
PhaseDegraded == "Degraded"
PhaseError == "Error"

ConditionPluginDeployed == "PluginDeployed"
ConditionRBACConfigured == "RBACConfigured"
ConditionConsolePluginRegistered == "ConsolePluginRegistered"

\* operatorKey -> CRD name
operatorCRDs ==
  [ certManager |-> "certificates.cert-manager.io",
    externalSecrets |-> "externalsecrets.external-secrets.io",
    secretsStoreCSI |-> "secretproviderclasses.secrets-store.csi.x-k8s.io" ]

Operators == DOMAIN operatorCRDs

\* --------------------------------------------------------------- utilities

Range(s) == { s[i] : i \in DOMAIN s }

NoErr == [kind |-> "nil"]

\* An error returned by an API call made at step `at`.
ApiErr(reason, at) == [kind |-> "api", reason |-> reason, at |-> at]

\* fmt.Errorf("%s: invalid quantity %q: %w", fieldName, val, err)
QuantityErr(fieldName, val) == [kind |-> "quantity", field |-> fieldName, val |-> val]

\* ------------------------------------------------------------ spec domain

\* resource.ParseQuantity on the strings the model draws from.
ValidQuantities == {"10m", "50Mi", "100m", "128Mi", "250m", "64Mi"}

ParseQuantityOk(val) == val \in ValidQuantities

NoResources == [requestsCpu |-> "", requestsMemory |-> "", limitsCpu |-> "", limitsMemory |-> ""]

\* newTestConfig / scenario A: CreateDefaultRoles, prefix secrets-management, 2 replicas
BaseSpec ==
  [ createDefaultRoles |-> TRUE,
    rolePrefix |-> "secrets-management",
    image |-> "openshift.io/ocp-secrets-management:test",
    imagePullPolicy |-> "",
    replicas |-> 2,
    resources |-> NoResources ]

\* The specs the administrator writes: the base spec and its variations
\* (roles disabled; a custom prefix, one replica and a CPU request; every
\* default; a malformed memory limit).
SpecChoices ==
  { BaseSpec,
    [BaseSpec EXCEPT !.createDefaultRoles = FALSE],
    [BaseSpec EXCEPT !.rolePrefix = "custom-prefix", !.replicas = 1, !.resources.requestsCpu = "250m"],
    [BaseSpec EXCEPT !.rolePrefix = "", !.replicas = 0, !.image = "", !.imagePullPolicy = "Always"],
    [BaseSpec EXCEPT !.resources.limitsMemory = "not-a-number"] }

RolePrefixes == { s.rolePrefix : s \in SpecChoices }

\* ------------------------------------------------------ resource builders

ManagedLabels ==
  [ name |-> PluginName, partOf |-> "ocp-secrets-management",
    managedBy |-> "secrets-management-operator" ]

RoleLabels ==
  [ managedBy |-> "secrets-management-operator", partOf |-> "ocp-secrets-management" ]

CertManagerResources == <<"certificates", "issuers", "clusterissuers">>
ExternalSecretsResources ==
  <<"externalsecrets", "clusterexternalsecrets", "secretstores", "clustersecretstores", "pushsecrets">>
CSIResources == <<"secretproviderclasses", "secretproviderclasspodstatuses">>

PolicyRule(group, resources, verbs) ==
  [apiGroups |-> <<group>>, resources |-> resources, verbs |-> verbs]

buildViewClusterRole(prefix) ==
  [ name |-> prefix \o "-view",
    labels |-> RoleLabels,
    rules |-> << PolicyRule("cert-manager.io", CertManagerResources, <<"get", "list", "watch">>),
                 PolicyRule("external-secrets.io", ExternalSecretsResources, <<"get", "list", "watch">>),
                 PolicyRule("secrets-store.csi.x-k8s.io", CSIResources, <<"get", "list", "watch">>) >> ]

\* A faulty variant: the delete role may also read.
buildDeleteClusterRoleWithGet(prefix) ==
  [ name |-> prefix \o "-delete",
    labels |-> RoleLabels,
    rules |-> << PolicyRule("cert-manager.io", CertManagerResources, <<"get", "delete">>),
                 PolicyRule("external-secrets.io", ExternalSecretsResources, <<"get", "delete">>),
                 PolicyRule("secrets-store.csi.x-k8s.io", <<"secretproviderclasses">>, <<"get", "delete">>) >> ]

buildDeleteClusterRole(prefix) ==
  [ name |-> prefix \o "-delete",
    labels |-> RoleLabels,
    rules |-> << PolicyRule("cert-manager.io", CertManagerResources, <<"delete">>),
                 PolicyRule("external-secrets.io", ExternalSecretsResources, <<"delete">>),
                 PolicyRule("secrets-store.csi.x-k8s.io", <<"secretproviderclasses">>, <<"delete">>) >> ]

buildAdminClusterRole(prefix) ==
  [ name |-> prefix \o "-admin",
    labels |-> RoleLabels,
    rules |-> << PolicyRule("cert-manager.io", CertManagerResources, <<"*">>),
                 PolicyRule("external-secrets.io", ExternalSecretsResources, <<"*">>),
                 PolicyRule("secrets-store.csi.x-k8s.io", CSIResources, <<"*">>) >> ]

\* prefix := config.Spec.RBAC.RolePrefix; if prefix == "" { prefix = "secrets-management" }
ResolvePrefix(spec) == IF spec.rolePrefix = "" THEN DefaultRolePrefix ELSE spec.rolePrefix

\* The three roles reconcileRBAC builds, in the order it syncs them.
BuiltRoles(spec) ==
  << buildViewClusterRole(ResolvePrefix(spec)),
     buildDeleteClusterRole(ResolvePrefix(spec)),
     buildAdminClusterRole(ResolvePrefix(spec)) >>

RoleOperations == << <<"view">>, <<"delete">>, <<"view", "delete", "create", "edit">> >>

\* A faulty variant: the cleanup always uses the default prefix.
CleanupRoleNamesDefaultPrefix(spec) ==
  << DefaultRolePrefix \o "-view", DefaultRolePrefix \o "-delete", DefaultRolePrefix \o "-admin" >>

\* roleNames of cleanupRBAC
CleanupRoleNames(spec) ==
  << ResolvePrefix(spec) \o "-view", ResolvePrefix(spec) \o "-delete", ResolvePrefix(spec) \o "-admin" >>

RoleNames ==
  UNION { { p \o "-view", p \o "-delete", p \o "-admin" } :
          p \in { IF q = "" THEN DefaultRolePrefix ELSE q : q \in RolePrefixes } }

NamespaceKey == "Namespace/" \o PluginNamespace
ServiceAccountKey == "ServiceAccount/" \o PluginName \o "-plugin"
ServiceKey == "Service/" \o PluginName \o "-plugin"
ConfigMapKey == "ConfigMap/" \o PluginName \o "-nginx-conf"
DeploymentKey == "Deployment/" \o PluginName \o "-plugin"
ConsolePluginKey == "ConsolePlugin/" \o PluginName

PluginKeys == {NamespaceKey, ServiceAccountKey, ServiceKey, ConfigMapKey, DeploymentKey, ConsolePluginKey}
Keys == PluginKeys \cup RoleNames

\* Owned fields of each desired object.
NamespaceDesired == [labels |-> ManagedLabels]
ServiceAccountDesired == [labels |-> ManagedLabels]
ServiceDesired ==
  [ labels |-> ManagedLabels,
    annotations |-> [servingCertSecretName |-> PluginName \o "-plugin-cert"],
    ports |-> <<[name |-> "https", port |-> PluginPort, targetPort |-> PluginPort, protocol |-> "TCP"]>>,
    selector |-> [name |-> PluginName] ]
ConfigMapDesired == [data |-> [nginxConf |-> "listen 9443 ssl"]]
ConsolePluginDesired ==
  [ labels |-> ManagedLabels,
    spec |-> [ displayName |-> "OCP Secrets Management",
               backend |-> [ type |-> "Service",
                             service |-> [ name |-> PluginName \o "-plugin",
                                           namespace |-> PluginNamespace,
                                           port |-> PluginPort,
                                           basePath |-> "/" ] ] ] ]

ResourceFields ==
  << [name |-> "spec.plugin.resources.requests.cpu", key |-> "requestsCpu", default |-> "10m"],
     [name |-> "spec.plugin.resources.requests.memory", key |-> "requestsMemory", default |-> "50Mi"],
     [name |-> "spec.plugin.resources.limits.cpu", key |-> "limitsCpu", default |-> "100m"],
     [name |-> "spec.plugin.resources.limits.memory", key |-> "limitsMemory", default |-> "128Mi"] >>

ResourceValue(spec, i) ==
  CASE i = 1 -> spec.resources.requestsCpu
    [] i = 2 -> spec.resources.requestsMemory
    [] i = 3 -> spec.resources.limitsCpu
    [] i = 4 -> spec.resources.limitsMemory

\* A faulty variant: only the requests are validated.
ParseResourcesRequestsOnly(spec) ==
  LET bad == { i \in 1..2 : ResourceValue(spec, i) # "" /\ ~ParseQuantityOk(ResourceValue(spec, i)) }
  IN IF bad = {} THEN NoErr
     ELSE LET i == CHOOSE j \in bad : \A k \in bad : j <= k
          IN QuantityErr(ResourceFields[i].name, ResourceValue(spec, i))

\* parseAndSet on the four fields in order: the first error, or NoErr.
ParseResources(spec) ==
  LET bad == { i \in 1..4 : ResourceValue(spec, i) # "" /\ ~ParseQuantityOk(ResourceValue(spec, i)) }
  IN IF bad = {} THEN NoErr
     ELSE LET i == CHOOSE j \in bad : \A k \in bad : j <= k
          IN QuantityErr(ResourceFields[i].name, ResourceValue(spec, i))

\* The Deployment spec reconcileDeployment builds.
DeploymentDesired(spec) ==
  [ spec |->
      [ replicas |-> IF spec.replicas = 0 THEN DefaultReplicas ELSE spec.replicas,
        image |-> IF spec.image = "" THEN DefaultPluginImage ELSE spec.image,
        imagePullPolicy |-> IF spec.imagePullPolicy = "Always" THEN "Always"
                            ELSE IF spec.imagePullPolicy = "Never" THEN "Never"
                            ELSE "IfNotPresent",
        resources |-> [ i \in 1..4 |-> IF ResourceValue(spec, i) = "" THEN ResourceFields[i].default
                                       ELSE ResourceValue(spec, i) ],
        serviceAccountName |-> PluginName \o "-plugin",
        containerPort |-> PluginPort,
        certSecret |-> PluginName \o "-plugin-cert",
        configMap |-> PluginName \o "-nginx-conf" ] ]

\* ------------------------------------------------------------------ state

VARIABLES
  cfg,       \* the SecretsManagementConfig object as the API server stores it
  objs,      \* the owned cluster objects, by key
  crds,      \* the peer operators' CustomResourceDefinitions, by operator key
  clock,     \* wall clock
  ext,       \* changes made by other actors so far
  faults,    \* API failures still to come
  queue,     \* the request for this object is in the controller's work queue
  pc,        \* position of the running Reconcile ("idle" between calls)
  config,    \* Reconcile's in-memory copy of the object
  existing,  \* the object the running synchronizer read
  err,       \* the sync error handed to updateStatusError
  idx,       \* loop index of the running role / cleanup loop
  acc,       \* Created timestamps resolved so far by createdAt
  probed,    \* operators detectOperators has probed so far
  tried,     \* cleanup steps reconcileDelete has called so far, with their outcome
  result,    \* what the last Reconcile returned
  last,      \* the last API call of the current (or last) Reconcile
  allOk,     \* no API call of the current (or last) Reconcile returned an error
  calm,      \* no other actor has acted since the current Reconcile started
  clean,     \* the last Reconcile ended Ready and nothing has changed since
  before     \* what the current Reconcile started from

vars == << cfg, objs, crds, clock, ext, faults, queue, pc, config, existing, err, idx, acc,
           probed, tried, result, last, allOk, calm, clean, before >>

locals == << config, existing, err, idx, acc, probed, tried >>

EmptyPlugin ==
  [ deploymentName |-> "", serviceName |-> "", consolePluginName |-> "",
    availableReplicas |-> 0, ready |-> FALSE ]

NotDetected == [installed |-> FALSE, version |-> ""]

EmptyStatus ==
  [ phase |-> "",
    observedGeneration |-> 0,
    rbac |-> << >>,
    plugin |-> EmptyPlugin,
    detectedOperators |-> [op \in Operators |-> NotDetected],
    conditions |-> << >> ]

NoCfg ==
  [ exists |-> FALSE, generation |-> 0, rv |-> 0, finalizer |-> FALSE,
    deleting |-> FALSE, spec |-> BaseSpec, status |-> EmptyStatus ]

NoFields == [none |-> TRUE]

Absent ==
  [ exists |-> FALSE, rv |-> 0, owned |-> NoFields, other |-> 0, created |-> 0, avail |-> 0 ]

NoObj == [key |-> "", obj |-> Absent]

NoResult == [err |-> NoErr, requeueAfter |-> 0]

NoCall == [verb |-> "", key |-> "", res |-> "", at |-> ""]

NoBefore ==
  [ clean |-> FALSE, fresh |-> FALSE, partial |-> FALSE, settled |-> FALSE,
    deleting |-> FALSE, spec |-> BaseSpec, view |-> << >> ]

\* A resourceVersion no reader holds: the API server hands out a new one on
\* every write, and readers only compare them for equality.
FreshRV(used) == CHOOSE n \in 0..3 : n \notin used /\ \A m \in 0..3 : m \notin used => n <= m

\* The versions a reader may hold of the object stored under key k.
HeldRVs(k) == {objs[k].rv} \cup (IF existing.key = k THEN {existing.obj.rv} ELSE {})

\* What the API server stores on Create of key k with the given owned fields.
Created(k, fields) ==
  [ exists |-> TRUE, rv |-> FreshRV(HeldRVs(k)), owned |-> fields, other |-> 0,
    created |-> clock, avail |-> 0 ]

\* A faulty variant: the update stores the object as the controller builds it,
\* without the fields of other owners.
UpdatedAsBuilt(k, sent) ==
  [sent EXCEPT !.other = 0, !.rv = FreshRV(HeldRVs(k))]

\* What the API server stores on Update of key k: the object sent, under a
\* new resourceVersion unless nothing changed.
Updated(k, sent) ==
  IF sent = objs[k] THEN objs[k] ELSE [sent EXCEPT !.rv = FreshRV(HeldRVs(k))]

\* The CRD definitions other actors install: absent, or a version list.
CrdChoices ==
  { [present |-> FALSE, versions |-> << >>],
    [present |-> TRUE, versions |-> <<[name |-> "v1", served |-> TRUE]>>],
    [present |-> TRUE, versions |-> <<[name |-> "v1alpha1", served |-> FALSE],
                                      [name |-> "v1beta1", served |-> TRUE],
                                      [name |-> "v1", served |-> TRUE]>>],
    [present |-> TRUE, versions |-> <<[name |-> "v1alpha1", served |-> FALSE]>>] }

\* The installer has created the configuration object (generation 1, no
\* finalizer, empty status) on a cluster that holds none of the owned objects;
\* the creation event has queued the request.
NewConfig(s) ==
  [ exists |-> TRUE, generation |-> 1, rv |-> 1, finalizer |-> FALSE,
    deleting |-> FALSE, spec |-> s, status |-> EmptyStatus ]

\* No Reconcile is running and the request is queued.
Queued ==
  /\ queue = TRUE
  /\ pc = "idle"
  /\ config = NoCfg
  /\ existing = NoObj
  /\ err = NoErr
  /\ idx = 0
  /\ acc = << >>
  /\ probed = {}
  /\ tried = << >>
  /\ result = NoResult
  /\ last = NoCall
  /\ allOk = TRUE
  /\ calm = TRUE
  /\ clean = FALSE
  /\ before = NoBefore

\* A cluster without owned objects and peer CRDs holding a new configuration
\* object.
Installed ==
  /\ \E s \in SpecChoices : cfg = NewConfig(s)
  /\ objs = [k \in Keys |-> Absent]
  /\ crds = [op \in Operators |-> [present |-> FALSE, versions |-> << >>]]
  /\ clock = 1
  /\ ext = 0

Init ==
  /\ Installed
  /\ faults = MaxFaults
  /\ Queued

\* The steps of Reconcile that read or write the configuration object; every
\* other step works on the in-memory copy, so a change to the stored object
\* commutes with it and is only taken right before one of these.  Between
\* calls a change commutes with the scheduler's dequeue, so it is taken there
\* only when nothing is queued (it is what wakes the controller up).
ConfigSteps ==
  { "Reconcile.Get", "Reconcile.AddFinalizer", "Reconcile.SetDeploying",
    "Reconcile.SetReady", "updateStatusError", "reconcileDelete.Get",
    "reconcileDelete.RemoveFinalizer" }

MayTouchConfig == pc \in ConfigSteps \/ (pc = "idle" /\ ~queue)

\* The owned object the next step of Reconcile reads or writes, "" if none.
NextKey ==
  CASE pc \in {"reconcileNamespace.Get", "reconcileNamespace.Create"} -> NamespaceKey
    [] pc \in {"createOrUpdateClusterRole.Get", "createOrUpdateClusterRole.Create",
               "createOrUpdateClusterRole.Update", "reconcileRBAC.createdAt"} ->
         BuiltRoles(config.spec)[IF idx \in 1..3 THEN idx ELSE 1].name
    [] pc \in {"reconcileServiceAccount.Get", "reconcileServiceAccount.Create"} ->
         ServiceAccountKey
    [] pc \in {"reconcileService.Get", "reconcileService.Create", "reconcileService.Update"} ->
         ServiceKey
    [] pc \in {"reconcileNginxConfig.Get", "reconcileNginxConfig.Create", "reconcileNginxConfig.Update"} ->
         ConfigMapKey
    [] pc \in {"reconcileDeployment.Get", "reconcileDeployment.Create", "reconcileDeployment.Update"} ->
         DeploymentKey
    [] pc \in {"reconcileConsolePlugin.Get", "reconcileConsolePlugin.Create",
               "reconcileConsolePlugin.Update", "cleanupConsolePlugin"} ->
         ConsolePluginKey
    [] pc = "cleanupPluginDeployment" ->
         << DeploymentKey, ServiceKey,
            ServiceAccountKey,
            ConfigMapKey >>[IF idx \in 1..4 THEN idx ELSE 1]
    [] pc = "cleanupRBAC" -> CleanupRoleNames(config.spec)[IF idx \in 1..3 THEN idx ELSE 1]
    [] OTHER -> ""

\* A change to owned object k by another actor commutes with every step of
\* Reconcile that does not touch k: it is taken between calls or right before
\* a step on k.
MayTouch(k) == pc = "idle" \/ NextKey = k

\* ------------------------------------------------------------ environment

\* The administrator edits the spec: generation and resourceVersion move.
AdminEditSpec ==
  /\ MayTouchConfig
  /\ cfg.exists
  /\ cfg.generation < MaxGen
  /\ \E s \in SpecChoices \ {cfg.spec} :
       cfg' = [ cfg EXCEPT !.spec = s, !.generation = cfg.generation + 1,
                           !.rv = FreshRV({cfg.rv, config.rv}) ]
  /\ queue' = TRUE
  /\ calm' = FALSE
  /\ clean' = FALSE
  /\ UNCHANGED << faults, objs, crds, clock, ext, pc, locals, result, last, allOk, before >>

\* The administrator deletes the object: with a finalizer it is only marked
\* (DeletionTimestamp), without one it is gone.
AdminDelete ==
  /\ MayTouchConfig
  /\ cfg.exists
  /\ ~cfg.deleting
  /\ cfg' = IF cfg.finalizer
            THEN [cfg EXCEPT !.deleting = TRUE, !.rv = FreshRV({cfg.rv, config.rv})]
            ELSE NoCfg
  /\ queue' = TRUE
  /\ calm' = FALSE
  /\ clean' = FALSE
  /\ UNCHANGED << faults, objs, crds, clock, ext, pc, locals, result, last, allOk, before >>

\* Another actor deletes an owned object.
ExternalDelete ==
  /\ ext < MaxExt
  /\ \E k \in Keys :
       /\ objs[k].exists
       /\ MayTouch(k)
       /\ objs' = [objs EXCEPT ![k] = Absent]
  /\ ext' = ext + 1
  /\ calm' = FALSE
  /\ clean' = FALSE
  /\ UNCHANGED << faults, cfg, crds, clock, queue, pc, locals, result, last, allOk, before >>

\* Another actor edits an owned object: a field the controller does not own
\* (what = "other") or the fields it owns (what = "owned").
ExternalEdit ==
  /\ ext < MaxExt
  /\ \E k \in Keys, what \in {"other", "owned"} :
       /\ objs[k].exists
       /\ MayTouch(k)
       /\ objs' = [objs EXCEPT ![k] =
                     IF what = "other"
                     THEN [@ EXCEPT !.other = 1 - @, !.rv = FreshRV(HeldRVs(k))]
                     ELSE [@ EXCEPT !.owned = [drifted |-> TRUE], !.rv = FreshRV(HeldRVs(k))]]
  /\ ext' = ext + 1
  /\ calm' = FALSE
  /\ clean' = FALSE
  /\ UNCHANGED << faults, cfg, crds, clock, queue, pc, locals, result, last, allOk, before >>

\* The platform reports the Deployment's available replicas.
DeploymentStatus ==
  /\ ext < MaxExt
  /\ objs[DeploymentKey].exists
  /\ MayTouch(DeploymentKey)
  /\ \E n \in 0..DefaultReplicas :
       /\ n # objs[DeploymentKey].avail
       /\ objs' = [objs EXCEPT ![DeploymentKey] =
                     [@ EXCEPT !.avail = n, !.rv = FreshRV(HeldRVs(DeploymentKey))]]
  /\ ext' = ext + 1
  /\ calm' = FALSE
  /\ clean' = FALSE
  /\ UNCHANGED << faults, cfg, crds, clock, queue, pc, locals, result, last, allOk, before >>

\* A peer operator's CRD is installed, changed or removed.
CrdChange ==
  /\ ext < MaxExt
  /\ pc \in {"idle", "detectOperators"}
  /\ \E op \in Operators, c \in CrdChoices :
       /\ c # crds[op]
       /\ crds' = [crds EXCEPT ![op] = c]
  /\ ext' = ext + 1
  /\ calm' = FALSE
  /\ clean' = FALSE
  /\ UNCHANGED << faults, cfg, objs, clock, queue, pc, locals, result, last, allOk, before >>

\* Time passes.
Tick ==
  /\ pc = "idle"
  /\ clock < MaxClock
  /\ clock' = clock + 1
  /\ UNCHANGED << faults, cfg, objs, crds, ext, queue, pc, locals, result, last, allOk, calm, clean, before >>

\* The RequeueAfter timer of the last result fires.
Timer ==
  /\ pc = "idle"
  /\ result.requeueAfter = RequeueInterval
  /\ ~queue
  /\ queue' = TRUE
  /\ UNCHANGED << faults, cfg, objs, crds, clock, ext, pc, locals, result, last, allOk, calm, clean, before >>

\* ------------------------------------------------- status/condition manager

\* A faulty variant: every call appends.
setConditionAppends(conds, condType, status, reason, message, now) ==
  Append(conds, [ type |-> condType, status |-> status, reason |-> reason,
                  message |-> message, lastTransitionTime |-> now ])

\* setCondition: replace in place when the Status differs, leave untouched
\* when it is the same, append when the Type is new.
setCondition(conds, condType, status, reason, message, now) ==
  LET condition == [ type |-> condType, status |-> status, reason |-> reason,
                     message |-> message, lastTransitionTime |-> now ]
      hits == { i \in DOMAIN conds : conds[i].type = condType }
  IN IF hits = {} THEN Append(conds, condition)
     ELSE LET i == CHOOSE j \in hits : \A k \in hits : j <= k
          IN IF conds[i].status # status THEN [conds EXCEPT ![i] = condition] ELSE conds

\* A faulty variant: the recorded timestamps are not looked at.
ExistingByRoleForgets(status, name) ==
  IF objs[name].exists THEN objs[name].created ELSE clock

\* existingByRole[name] of reconcileRBAC: the Created of the last status entry
\* with that name, 0 when there is none.
ExistingByRole(status, name) ==
  LET hits == { i \in DOMAIN status.rbac : status.rbac[i].name = name }
  IN IF hits = {} THEN 0
     ELSE status.rbac[CHOOSE j \in hits : \A k \in hits : j >= k].created

\* Status.RBAC.ClusterRoles as reconcileRBAC rebuilds it.
ClusterRoleStatuses(spec, times) ==
  [ i \in 1..3 |-> [ name |-> BuiltRoles(spec)[i].name,
                     operations |-> RoleOperations[i],
                     created |-> times[i] ] ]

\* A faulty variant: the plugin is reported ready whatever the Deployment says.
PluginStatusOfAlwaysReady(deployment) ==
  [ deploymentName |-> PluginName \o "-plugin",
    serviceName |-> PluginName \o "-plugin",
    consolePluginName |-> PluginName,
    availableReplicas |-> deployment.avail,
    ready |-> TRUE ]

\* Status.Plugin as reconcileDeployment writes it from the live Deployment.
PluginStatusOf(deployment) ==
  [ deploymentName |-> PluginName \o "-plugin",
    serviceName |-> PluginName \o "-plugin",
    consolePluginName |-> PluginName,
    availableReplicas |-> deployment.avail,
    ready |-> deployment.avail > 0 ]

\* A faulty variant: the latest served version wins.
LastServed(versions) ==
  LET served == { i \in DOMAIN versions : versions[i].served }
  IN IF served = {} THEN ""
     ELSE versions[CHOOSE j \in served : \A k \in served : j >= k].name

\* The version detectOperators records: the first served one, in order.
FirstServed(versions) ==
  LET served == { i \in DOMAIN versions : versions[i].served }
  IN IF served = {} THEN ""
     ELSE versions[CHOOSE j \in served : \A k \in served : j <= k].name

\* ------------------------------------------------------- control positions

ConfigKey == "SecretsManagementConfig/cluster"

Call(verb, key, res) == [verb |-> verb, key |-> key, res |-> res]

\* Not-found is the expected answer of a read or delete of an absent object;
\* every other non-ok answer is a failed call.
Failed(res) == res \notin {"ok", "notfound"}

\* An API call may fail for reasons outside the program (network, server).
FaultChoices == IF faults > 0 THEN BOOLEAN ELSE {FALSE}

Record(call) ==
  /\ last' = [verb |-> call.verb, key |-> call.key, res |-> call.res, at |-> pc]
  /\ allOk' = (allOk /\ ~Failed(call.res))

Log(call) ==
  /\ Record(call)
  /\ faults' = IF call.res = "error" THEN faults - 1 ELSE faults

P(name, i) == [pc |-> name, idx |-> i, err |-> NoErr]

\* A faulty variant: the sync error is logged and Reconcile goes on.
FailToLogsOnly(e) == [pc |-> "reconcileConsolePlugin.Get", idx |-> 0, err |-> NoErr]

\* return r.updateStatusError(ctx, config, err)
FailTo(e) == [pc |-> "updateStatusError", idx |-> 0, err |-> e]

\* A faulty variant: an object marked for deletion is synced like any other.
AfterFinalizerSyncsDeleted(c) ==
  IF c.status.phase = "" \/ c.status.phase = PhasePending THEN P("Reconcile.SetDeploying", 0)
  ELSE P("reconcileNamespace.Get", 0)

\* A faulty variant: the Deploying signal is never given.
AfterFinalizerSkipsDeploying(c) ==
  IF c.deleting THEN P("cleanupConsolePlugin", 0) ELSE P("reconcileNamespace.Get", 0)

\* Reconcile after the finalizer step: the deletion branch, the Deploying
\* signal, or the first synchronizer.
AfterFinalizer(c) ==
  IF c.deleting THEN P("cleanupConsolePlugin", 0)
  ELSE IF c.status.phase = "" \/ c.status.phase = PhasePending THEN P("Reconcile.SetDeploying", 0)
  ELSE P("reconcileNamespace.Get", 0)

\* A faulty variant: the finalizer is never added.
AfterGetSkipsFinalizer(c) ==
  IF c.deleting THEN P("cleanupConsolePlugin", 0)
  ELSE IF c.status.phase = "" \/ c.status.phase = PhasePending THEN P("Reconcile.SetDeploying", 0)
  ELSE P("reconcileNamespace.Get", 0)

\* if !controllerutil.ContainsFinalizer(config, FinalizerName) { ... }
AfterGet(c) ==
  IF c.finalizer THEN AfterFinalizer(c) ELSE P("Reconcile.AddFinalizer", 0)

\* A faulty variant: the roles are synced whatever the flag says.
AfterNamespaceIgnoresFlag(c) == P("createOrUpdateClusterRole.Get", 1)

\* A faulty variant: with the flag off the roles are still looked up and
\* recorded in the status.
AfterNamespaceLooksUpRoles(c) ==
  IF ~c.spec.createDefaultRoles THEN P("reconcileRBAC.createdAt", 1)
  ELSE P("createOrUpdateClusterRole.Get", 1)

\* reconcileRBAC: nothing when CreateDefaultRoles is false.
AfterNamespace(c) ==
  IF ~c.spec.createDefaultRoles THEN P("reconcileServiceAccount.Get", 0)
  ELSE P("createOrUpdateClusterRole.Get", 1)

\* A faulty variant: the loop over the built roles stops before the last one.
AfterRoleStopsEarly(i) ==
  IF i < 2 THEN P("createOrUpdateClusterRole.Get", i + 1) ELSE P("reconcileRBAC.createdAt", 1)

\* for _, role := range roles { createOrUpdateClusterRole(role) }
AfterRole(i) ==
  IF i < 3 THEN P("createOrUpdateClusterRole.Get", i + 1) ELSE P("reconcileRBAC.createdAt", 1)

\* reconcileDeployment parses the four quantities before its first API call.
AfterService(c) ==
  IF ParseResources(c.spec) # NoErr THEN FailTo(ParseResources(c.spec))
  ELSE P("reconcileNginxConfig.Get", 0)

\* The scheduler's bookkeeping of a step that does not return.
Step(pos, changed) ==
  /\ pc' = pos.pc
  /\ idx' = pos.idx
  /\ err' = pos.err
  /\ queue' = (queue \/ changed)
  /\ UNCHANGED << result, clean >>

Goto(pos, changed) == Step(pos, changed) /\ UNCHANGED tried

\* A faulty variant: no return asks for a timed re-check.
FinishWithoutRequeue(e, rq, changed) ==
  /\ pc' = "idle"
  /\ idx' = 0
  /\ err' = NoErr
  /\ result' = [err |-> e, requeueAfter |-> 0]
  /\ queue' = (queue \/ changed \/ e # NoErr)
  /\ clean' = (e = NoErr /\ rq = RequeueInterval /\ calm /\ allOk')
  /\ config' = NoCfg
  /\ existing' = NoObj
  /\ acc' = << >>
  /\ probed' = {}
  /\ tried' = << >>

\* Reconcile returns (e, RequeueAfter rq): an error re-queues the request,
\* and so does the watch event of a change to the object.
Finish(e, rq, changed) ==
  /\ pc' = "idle"
  /\ idx' = 0
  /\ err' = NoErr
  /\ result' = [err |-> e, requeueAfter |-> rq]
  /\ queue' = (queue \/ changed \/ e # NoErr)
  /\ clean' = (e = NoErr /\ rq = RequeueInterval /\ calm /\ allOk')
  /\ config' = NoCfg
  /\ existing' = NoObj
  /\ acc' = << >>
  /\ probed' = {}
  /\ tried' = << >>

\* The owned objects and the persisted status without timestamps and
\* resourceVersions.
ObjView(o) == [exists |-> o.exists, owned |-> o.owned, other |-> o.other, avail |-> o.avail]

StatusView(st) ==
  [ phase |-> st.phase,
    observedGeneration |-> st.observedGeneration,
    rbac |-> [i \in DOMAIN st.rbac |-> [name |-> st.rbac[i].name, operations |-> st.rbac[i].operations]],
    plugin |-> st.plugin,
    detectedOperators |-> st.detectedOperators,
    conditions |-> [i \in DOMAIN st.conditions |->
                      [ type |-> st.conditions[i].type, status |-> st.conditions[i].status,
                        reason |-> st.conditions[i].reason, message |-> st.conditions[i].message ]] ]

View == << [k \in Keys |-> ObjView(objs[k])], StatusView(cfg.status) >>

ClusterEmpty == \A k \in Keys : ~objs[k].exists

\* The owned objects a spec asks for, and the fields the controller gives them.
DesiredKeys(spec) ==
  PluginKeys \cup (IF spec.createDefaultRoles THEN { BuiltRoles(spec)[i].name : i \in 1..3 } ELSE {})

DesiredOf(k, spec) ==
  CASE k = NamespaceKey -> NamespaceDesired
    [] k = ServiceAccountKey -> ServiceAccountDesired
    [] k = ServiceKey -> ServiceDesired
    [] k = ConfigMapKey -> ConfigMapDesired
    [] k = DeploymentKey -> DeploymentDesired(spec)
    [] k = ConsolePluginKey -> ConsolePluginDesired
    [] OTHER -> LET role == CHOOSE r \in Range(BuiltRoles(spec)) : r.name = k
                IN [labels |-> role.labels, rules |-> role.rules]

\* Some, not all, of the objects the stored spec asks for exist.
PartlyApplied ==
  /\ \E k \in DesiredKeys(cfg.spec) : objs[k].exists
  /\ \E k \in DesiredKeys(cfg.spec) : ~objs[k].exists

\* Every object the stored spec asks for exists with the desired fields, and
\* the persisted phase is Ready.
Settled ==
  /\ \A k \in DesiredKeys(cfg.spec) : objs[k].exists /\ objs[k].owned = DesiredOf(k, cfg.spec)
  /\ cfg.status.phase = PhaseReady

FreshConfig ==
  cfg.exists /\ ~cfg.finalizer /\ ~cfg.deleting /\ cfg.generation = 1 /\ cfg.status = EmptyStatus

\* The outcome of r.Update / r.Status().Update of the configuration object.
ConfigWrite(fail) ==
  IF fail THEN "error"
  ELSE IF ~cfg.exists THEN "notfound"
  ELSE IF cfg.rv # config.rv THEN "conflict"
  ELSE "ok"

\* The stored object after a status write of the in-memory status st.
StatusWritten(st) ==
  IF cfg.status = st THEN cfg
  ELSE [cfg EXCEPT !.status = st, !.rv = FreshRV({cfg.rv, config.rv})]

\* ---------------------------------------------------------------- Reconcile

\* The scheduler hands the queued request to Reconcile (one at a time).
StartReconcile ==
  /\ pc = "idle"
  /\ queue
  /\ queue' = FALSE
  /\ pc' = "Reconcile.Get"
  /\ last' = NoCall
  /\ allOk' = TRUE
  /\ calm' = TRUE
  /\ before' = [ clean |-> clean,
                 fresh |-> FreshConfig /\ ClusterEmpty,
                 partial |-> PartlyApplied,
                 settled |-> Settled,
                 deleting |-> cfg.deleting,
                 spec |-> cfg.spec,
                 view |-> IF clean THEN View ELSE << >> ]
  /\ result' = NoResult
  /\ clean' = FALSE
  /\ UNCHANGED << faults, cfg, objs, crds, clock, ext, locals >>

\* A faulty variant: not-found is returned like every other error.
GetErrorKeepsNotFound(res) == ApiErr(res, "Reconcile.Get")

\* if errors.IsNotFound(err) { return ctrl.Result{}, nil }; return ctrl.Result{}, err
GetError(res) == IF res = "notfound" THEN NoErr ELSE ApiErr(res, "Reconcile.Get")

\* err := r.Get(ctx, req.NamespacedName, config)
ReconcileGet ==
  /\ pc = "Reconcile.Get"
  /\ \E fail \in FaultChoices :
       LET res == IF fail THEN "error" ELSE IF cfg.exists THEN "ok" ELSE "notfound" IN
       /\ Log(Call("Get", ConfigKey, res))
       /\ IF res = "ok"
          THEN /\ config' = cfg
               /\ Goto(AfterGet(cfg), FALSE)
               /\ UNCHANGED << existing, acc, probed >>
          ELSE Finish(GetError(res), 0, FALSE)
  /\ UNCHANGED << cfg, objs, crds, clock, ext, calm, before >>

\* controllerutil.AddFinalizer(config, FinalizerName); r.Update(ctx, config)
AddFinalizer ==
  /\ pc = "Reconcile.AddFinalizer"
  /\ \E fail \in FaultChoices :
       LET res == IF ConfigWrite(fail) = "ok" /\ cfg.deleting THEN "forbidden" ELSE ConfigWrite(fail)
           stored == [cfg EXCEPT !.finalizer = TRUE, !.rv = FreshRV({cfg.rv, config.rv})]
       IN
       /\ Log(Call("Update", ConfigKey, res))
       /\ IF res = "ok"
          THEN /\ cfg' = stored
               /\ config' = stored
               /\ Goto(AfterFinalizer(stored), TRUE)
               /\ UNCHANGED << existing, acc, probed >>
          ELSE /\ Finish(ApiErr(res, pc), 0, FALSE)
               /\ UNCHANGED cfg
  /\ UNCHANGED << objs, crds, clock, ext, calm, before >>

\* config.Status.Phase = PhaseDeploying; r.Status().Update(ctx, config)
SetDeploying ==
  /\ pc = "Reconcile.SetDeploying"
  /\ \E fail \in FaultChoices :
       LET res == ConfigWrite(fail)
           st == [config.status EXCEPT !.phase = PhaseDeploying]
       IN
       /\ Log(Call("StatusUpdate", ConfigKey, res))
       /\ IF res = "ok"
          THEN /\ cfg' = StatusWritten(st)
               /\ config' = StatusWritten(st)
               /\ Goto(P("reconcileNamespace.Get", 0), TRUE)
               /\ UNCHANGED << existing, acc, probed >>
          ELSE /\ Finish(ApiErr(res, pc), 0, FALSE)
               /\ UNCHANGED cfg
  /\ UNCHANGED << objs, crds, clock, ext, calm, before >>

\* ------------------------------------------------------------ synchronizers

\* existing := ...; err := r.Get(ctx, key, existing) of a synchronizer.
SyncGet(at, k, keep, onFound, onAbsent) ==
  /\ pc = at
  /\ \E fail \in FaultChoices :
       LET res == IF fail THEN "error" ELSE IF objs[k].exists THEN "ok" ELSE "notfound" IN
       /\ Log(Call("Get", k, res))
       /\ existing' = IF res = "ok" /\ keep THEN [key |-> k, obj |-> objs[k]] ELSE NoObj
       /\ Goto(CASE res = "error" -> FailTo(ApiErr(res, at))
                 [] res = "ok" -> onFound
                 [] res = "notfound" -> onAbsent, FALSE)
  /\ UNCHANGED << cfg, objs, crds, clock, ext, config, acc, probed, calm, before >>

\* return r.Create(ctx, desired) of a synchronizer.
SyncCreate(at, k, fields, next) ==
  /\ pc = at
  /\ \E fail \in FaultChoices :
       LET res == IF fail THEN "error" ELSE IF objs[k].exists THEN "alreadyexists" ELSE "ok" IN
       /\ Log(Call("Create", k, res))
       /\ objs' = IF res = "ok" THEN [objs EXCEPT ![k] = Created(k, fields)] ELSE objs
       /\ Goto(IF res = "ok" THEN next ELSE FailTo(ApiErr(res, at)), FALSE)
  /\ existing' = NoObj
  /\ UNCHANGED << cfg, crds, clock, ext, config, acc, probed, calm, before >>

\* A faulty variant: the update is sent without the resourceVersion that was
\* read, so the API server applies it to whatever is stored.
SyncUpdateForced(at, k, fields, next, configAfter) ==
  /\ pc = at
  /\ \E fail \in FaultChoices :
       LET res == IF fail THEN "error"
                  ELSE IF ~objs[k].exists THEN "notfound"
                  ELSE "ok"
       IN
       /\ Log(Call("Update", k, res))
       /\ objs' = IF res = "ok"
                  THEN [objs EXCEPT ![k] = Updated(k, [existing.obj EXCEPT !.owned = fields])]
                  ELSE objs
       /\ config' = IF res = "ok" THEN configAfter ELSE config
       /\ Goto(IF res = "ok" THEN next ELSE FailTo(ApiErr(res, at)), FALSE)
  /\ existing' = NoObj
  /\ UNCHANGED << cfg, crds, clock, ext, acc, probed, calm, before >>

\* existing.<owned fields> = desired; return r.Update(ctx, existing) of a
\* synchronizer; configAfter is the in-memory object after a successful update.
SyncUpdate(at, k, fields, next, configAfter) ==
  /\ pc = at
  /\ \E fail \in FaultChoices :
       LET res == IF fail THEN "error"
                  ELSE IF ~objs[k].exists THEN "notfound"
                  ELSE IF objs[k].rv # existing.obj.rv THEN "conflict"
                  ELSE "ok"
       IN
       /\ Log(Call("Update", k, res))
       /\ objs' = IF res = "ok"
                  THEN [objs EXCEPT ![k] = Updated(k, [existing.obj EXCEPT !.owned = fields])]
                  ELSE objs
       /\ config' = IF res = "ok" THEN configAfter ELSE config
       /\ Goto(IF res = "ok" THEN next ELSE FailTo(ApiErr(res, at)), FALSE)
  /\ existing' = NoObj
  /\ UNCHANGED << cfg, crds, clock, ext, acc, probed, calm, before >>

\* A faulty variant: the namespace sync writes its labels onto an existing
\* namespace.
ReconcileNamespaceGetOverwrites ==
  /\ pc = "reconcileNamespace.Get"
  /\ Log(Call("Update", NamespaceKey, "ok"))
  /\ objs' = [objs EXCEPT ![NamespaceKey] =
                IF @.exists THEN [@ EXCEPT !.owned = NamespaceDesired]
                ELSE Created(NamespaceKey, NamespaceDesired)]
  /\ existing' = NoObj
  /\ Goto(AfterNamespace(config), FALSE)
  /\ UNCHANGED << cfg, crds, clock, ext, config, acc, probed, calm, before >>

\* reconcileNamespace: create-if-absent.
ReconcileNamespaceGet ==
  SyncGet("reconcileNamespace.Get", NamespaceKey, FALSE,
          AfterNamespace(config), P("reconcileNamespace.Create", 0))

ReconcileNamespaceCreate ==
  SyncCreate("reconcileNamespace.Create", NamespaceKey, NamespaceDesired, AfterNamespace(config))

\* createOrUpdateClusterRole for the idx-th built role.
RoleAt(i) == BuiltRoles(config.spec)[IF i \in 1..3 THEN i ELSE 1]

RoleFields(role) == [labels |-> role.labels, rules |-> role.rules]

ClusterRoleGet ==
  SyncGet("createOrUpdateClusterRole.Get", RoleAt(idx).name, TRUE,
          P("createOrUpdateClusterRole.Update", idx), P("createOrUpdateClusterRole.Create", idx))

ClusterRoleCreate ==
  SyncCreate("createOrUpdateClusterRole.Create", RoleAt(idx).name, RoleFields(RoleAt(idx)), AfterRole(idx))

ClusterRoleUpdate ==
  SyncUpdate("createOrUpdateClusterRole.Update", RoleAt(idx).name, RoleFields(RoleAt(idx)),
             AfterRole(idx), config)

\* reconcileRBAC after the three roles: createdAt(name) for each role in
\* order, then the status list and the RBACConfigured condition.
RBACStatusOf(c, times) ==
  [ c EXCEPT !.status.rbac = ClusterRoleStatuses(c.spec, times),
             !.status.conditions =
                setCondition(c.status.conditions, ConditionRBACConfigured, "True",
                             "RolesCreated", "Created 3 ClusterRoles", clock) ]

CreatedAt ==
  /\ pc = "reconcileRBAC.createdAt"
  /\ LET name == RoleAt(idx).name
         known == \E i \in DOMAIN config.status.rbac : config.status.rbac[i].name = name
     IN \E fail \in FaultChoices :
          LET res == IF fail THEN "error" ELSE IF objs[name].exists THEN "ok" ELSE "notfound"
              t == IF known THEN ExistingByRole(config.status, name)
                   ELSE IF res = "ok" /\ objs[name].created # 0 THEN objs[name].created
                   ELSE clock
              times == Append(acc, t)
          IN
          /\ known => ~fail
          /\ IF known THEN UNCHANGED << last, allOk, faults >> ELSE Log(Call("Get", name, res))
          /\ IF idx < 3
             THEN /\ acc' = times
                  /\ config' = config
                  /\ Goto(P("reconcileRBAC.createdAt", idx + 1), FALSE)
             ELSE /\ acc' = << >>
                  /\ config' = RBACStatusOf(config, times)
                  /\ Goto(P("reconcileServiceAccount.Get", 0), FALSE)
  /\ UNCHANGED << cfg, objs, crds, clock, ext, existing, probed, calm, before >>

\* reconcileServiceAccount: create-if-absent.
ReconcileServiceAccountGet ==
  SyncGet("reconcileServiceAccount.Get", ServiceAccountKey, FALSE,
          P("reconcileService.Get", 0), P("reconcileServiceAccount.Create", 0))

ReconcileServiceAccountCreate ==
  SyncCreate("reconcileServiceAccount.Create", ServiceAccountKey, ServiceAccountDesired,
             P("reconcileService.Get", 0))

\* reconcileService: create, or overwrite labels, annotations, ports, selector.
ReconcileServiceGet ==
  SyncGet("reconcileService.Get", ServiceKey, TRUE,
          P("reconcileService.Update", 0), P("reconcileService.Create", 0))

ReconcileServiceCreate ==
  SyncCreate("reconcileService.Create", ServiceKey, ServiceDesired, AfterService(config))

ReconcileServiceUpdate ==
  SyncUpdate("reconcileService.Update", ServiceKey, ServiceDesired, AfterService(config), config)

\* reconcileNginxConfig: create, or overwrite the data.
ReconcileNginxConfigGet ==
  SyncGet("reconcileNginxConfig.Get", ConfigMapKey, TRUE,
          P("reconcileNginxConfig.Update", 0), P("reconcileNginxConfig.Create", 0))

ReconcileNginxConfigCreate ==
  SyncCreate("reconcileNginxConfig.Create", ConfigMapKey, ConfigMapDesired,
             P("reconcileDeployment.Get", 0))

ReconcileNginxConfigUpdate ==
  SyncUpdate("reconcileNginxConfig.Update", ConfigMapKey, ConfigMapDesired,
             P("reconcileDeployment.Get", 0), config)

\* reconcileDeployment: create and return, or overwrite the spec and then
\* set Status.Plugin and the PluginDeployed condition.
PluginDeployedOf(c, deployment) ==
  [ c EXCEPT !.status.plugin = PluginStatusOf(deployment),
             !.status.conditions =
                setCondition(c.status.conditions, ConditionPluginDeployed, "True",
                             "DeploymentReady", "Plugin deployment is ready", clock) ]

ReconcileDeploymentGet ==
  SyncGet("reconcileDeployment.Get", DeploymentKey, TRUE,
          P("reconcileDeployment.Update", 0), P("reconcileDeployment.Create", 0))

\* A faulty variant: the create branch sets Status.Plugin and the
\* PluginDeployed condition as well.
ReconcileDeploymentCreateSetsStatus ==
  /\ pc = "reconcileDeployment.Create"
  /\ \E fail \in FaultChoices :
       LET res == IF fail THEN "error"
                  ELSE IF objs[DeploymentKey].exists THEN "alreadyexists" ELSE "ok"
       IN
       /\ Log(Call("Create", DeploymentKey, res))
       /\ objs' = IF res = "ok"
                  THEN [objs EXCEPT ![DeploymentKey] =
                          Created(DeploymentKey, DeploymentDesired(config.spec))]
                  ELSE objs
       /\ config' = IF res = "ok" THEN PluginDeployedOf(config, objs'[DeploymentKey]) ELSE config
       /\ Goto(IF res = "ok" THEN P("reconcileConsolePlugin.Get", 0)
               ELSE FailTo(ApiErr(res, pc)), FALSE)
  /\ existing' = NoObj
  /\ UNCHANGED << cfg, crds, clock, ext, acc, probed, calm, before >>

ReconcileDeploymentCreate ==
  SyncCreate("reconcileDeployment.Create", DeploymentKey, DeploymentDesired(config.spec),
             P("reconcileConsolePlugin.Get", 0))

ReconcileDeploymentUpdate ==
  SyncUpdate("reconcileDeployment.Update", DeploymentKey, DeploymentDesired(config.spec),
             P("reconcileConsolePlugin.Get", 0), PluginDeployedOf(config, existing.obj))

\* reconcileConsolePlugin: create, or overwrite spec and labels.
ReconcileConsolePluginGet ==
  SyncGet("reconcileConsolePlugin.Get", ConsolePluginKey, TRUE,
          P("reconcileConsolePlugin.Update", 0), P("reconcileConsolePlugin.Create", 0))

ReconcileConsolePluginCreate ==
  SyncCreate("reconcileConsolePlugin.Create", ConsolePluginKey, ConsolePluginDesired,
             P("detectOperators", 0))

ReconcileConsolePluginUpdate ==
  SyncUpdate("reconcileConsolePlugin.Update", ConsolePluginKey, ConsolePluginDesired,
             P("detectOperators", 0), config)

\* detectOperators: one CRD lookup per operator, in the (unspecified) order
\* of the map iteration; a failed lookup only records Installed = false.
DetectedOf(crd, res) ==
  [ installed |-> res = "ok",
    version |-> IF res = "ok" /\ Len(crd.versions) > 0 THEN FirstServed(crd.versions) ELSE "" ]

\* A faulty variant: a lookup error aborts the reconcile.
AfterLookupAborts(res, done) ==
  IF res = "error" THEN [pc |-> "updateStatusError", idx |-> 0, err |-> ApiErr(res, "detectOperators")]
  ELSE IF done THEN P("Reconcile.SetReady", 0) ELSE P("detectOperators", 0)

\* installed := err == nil: the error of a lookup is not returned; after the
\* last operator detectOperators returns nil and Reconcile sets Ready.
AfterLookup(res, done) ==
  IF done THEN P("Reconcile.SetReady", 0) ELSE P("detectOperators", 0)

\* counted: a failed lookup is one of the counted API failures; a lookup
\* that is not counted may fail every time.
Detect(counted) ==
  /\ pc = "detectOperators"
  /\ \E op \in Operators \ probed, fail \in (IF counted THEN FaultChoices ELSE BOOLEAN) :
       LET res == IF fail THEN "error" ELSE IF crds[op].present THEN "ok" ELSE "notfound" IN
       /\ Record(Call("Get", operatorCRDs[op], res))
       /\ faults' = IF counted /\ res = "error" THEN faults - 1 ELSE faults
       /\ config' = [config EXCEPT !.status.detectedOperators[op] = DetectedOf(crds[op], res)]
       /\ probed' = IF probed \cup {op} = Operators THEN {} ELSE probed \cup {op}
       /\ Goto(AfterLookup(res, probed \cup {op} = Operators), FALSE)
  /\ UNCHANGED << cfg, objs, crds, clock, ext, existing, acc, calm, before >>

DetectOperators == Detect(TRUE)

\* The same step with lookups that may fail every time.
DetectOperatorsFailing == Detect(FALSE)

\* config.Status.Phase = PhaseReady; ObservedGeneration = config.Generation;
\* r.Status().Update; return RequeueAfter 5 minutes.
\* A faulty variant: Ready without the generation.
ReadyStatusWithoutGeneration(c) == [c.status EXCEPT !.phase = PhaseReady]

ReadyStatus(c) == [c.status EXCEPT !.phase = PhaseReady, !.observedGeneration = c.generation]

SetReady ==
  /\ pc = "Reconcile.SetReady"
  /\ \E fail \in FaultChoices :
       LET res == ConfigWrite(fail) IN
       /\ Log(Call("StatusUpdate", ConfigKey, res))
       /\ cfg' = IF res = "ok" THEN StatusWritten(ReadyStatus(config)) ELSE cfg
       /\ IF res = "ok"
          THEN Finish(NoErr, RequeueInterval, cfg' # cfg)
          ELSE Finish(ApiErr(res, pc), 0, FALSE)
  /\ UNCHANGED << objs, crds, clock, ext, calm, before >>

\* updateStatusError: Phase = Error, persist, return the sync error (or the
\* error of the status write when that fails).
\* A faulty variant: the error path also records the generation.
ErrorStatusWithGeneration(c) ==
  [c.status EXCEPT !.phase = PhaseError, !.observedGeneration = c.generation]

\* A faulty variant: the error write turns every condition False.
ErrorStatusResetsConditions(c) ==
  [ c.status EXCEPT !.phase = PhaseError,
                    !.conditions = [i \in DOMAIN @ |-> [@[i] EXCEPT !.status = "False"]] ]

ErrorStatus(c) == [c.status EXCEPT !.phase = PhaseError]

UpdateStatusError ==
  /\ pc = "updateStatusError"
  /\ \E fail \in FaultChoices :
       LET res == ConfigWrite(fail) IN
       /\ Log(Call("StatusUpdate", ConfigKey, res))
       /\ cfg' = IF res = "ok" THEN StatusWritten(ErrorStatus(config)) ELSE cfg
       /\ IF res = "ok"
          THEN Finish(err, 0, cfg' # cfg)
          ELSE Finish(ApiErr(res, pc), 0, FALSE)
  /\ UNCHANGED << objs, crds, clock, ext, calm, before >>

\* ----------------------------------------------------------- deletion flow

\* r.Delete(ctx, obj); err != nil && !errors.IsNotFound(err) stops the step.
\* The cleanup steps called so far: a step enters the list with its first
\* Delete and is marked failed by the Delete that makes it return an error.
Attempt(steps, step, failed) ==
  IF Len(steps) > 0 /\ steps[Len(steps)].step = step
  THEN [steps EXCEPT ![Len(steps)].failed = failed]
  ELSE Append(steps, [step |-> step, failed |-> failed])

\* counted: the failure is one of the counted API failures; a cleanup Delete
\* that is not counted may fail every time.
DeleteCall(at, k, onDone, onError, counted) ==
  /\ pc = at
  /\ \E fail \in (IF counted THEN FaultChoices ELSE BOOLEAN) :
       LET res == IF fail THEN "error" ELSE IF objs[k].exists THEN "ok" ELSE "notfound" IN
       /\ Record(Call("Delete", k, res))
       /\ faults' = IF counted /\ res = "error" THEN faults - 1 ELSE faults
       /\ objs' = IF res = "ok" THEN [objs EXCEPT ![k] = Absent] ELSE objs
       /\ tried' = Attempt(tried, at, res = "error")
       /\ Step(IF res = "error" THEN onError ELSE onDone, FALSE)
  /\ UNCHANGED << cfg, crds, clock, ext, config, existing, acc, probed, calm, before >>

\* A faulty variant: a failed console cleanup goes straight to the re-fetch.
AfterConsoleCleanupErrorReturns == P("reconcileDelete.Get", 0)

\* log.Error(err, "Failed to cleanup ConsolePlugin (continuing to remove finalizer)")
AfterConsoleCleanupError == P("cleanupPluginDeployment", 1)

\* cleanupConsolePlugin: delete the console registration.
ConsolePluginCleanup(counted) ==
  DeleteCall("cleanupConsolePlugin", ConsolePluginKey,
             P("cleanupPluginDeployment", 1), AfterConsoleCleanupError, counted)

\* A faulty variant: the nginx ConfigMap is left out.
CleanupPluginKeysWithoutConfigMap ==
  << DeploymentKey, ServiceKey, ServiceAccountKey, ServiceAccountKey >>

\* Deployment, Service, ServiceAccount, ConfigMap, in that order.
CleanupPluginKeys == << DeploymentKey, ServiceKey, ServiceAccountKey, ConfigMapKey >>

\* A faulty variant: a failed Delete does not end the step.
PluginDeploymentCleanupGoesOn(counted) ==
  DeleteCall("cleanupPluginDeployment", CleanupPluginKeys[IF idx \in 1..4 THEN idx ELSE 1],
             IF idx < 4 THEN P("cleanupPluginDeployment", idx + 1) ELSE P("cleanupRBAC", 1),
             IF idx < 4 THEN P("cleanupPluginDeployment", idx + 1) ELSE P("cleanupRBAC", 1),
             counted)

PluginDeploymentCleanup(counted) ==
  DeleteCall("cleanupPluginDeployment", CleanupPluginKeys[IF idx \in 1..4 THEN idx ELSE 1],
             IF idx < 4 THEN P("cleanupPluginDeployment", idx + 1) ELSE P("cleanupRBAC", 1),
             P("cleanupRBAC", 1), counted)

RBACCleanup(counted) ==
  DeleteCall("cleanupRBAC", CleanupRoleNames(config.spec)[IF idx \in 1..3 THEN idx ELSE 1],
             IF idx < 3 THEN P("cleanupRBAC", idx + 1) ELSE P("reconcileDelete.Get", 0),
             P("reconcileDelete.Get", 0), counted)

CleanupConsolePlugin == ConsolePluginCleanup(TRUE)

CleanupPluginDeployment == PluginDeploymentCleanup(TRUE)

CleanupRBAC == RBACCleanup(TRUE)

\* The same steps with Deletes that may fail every time.
CleanupConsolePluginFailing == ConsolePluginCleanup(FALSE)

CleanupPluginDeploymentFailing == PluginDeploymentCleanup(FALSE)

CleanupRBACFailing == RBACCleanup(FALSE)

\* Re-fetch to get the latest resourceVersion.
ReconcileDeleteGet ==
  /\ pc = "reconcileDelete.Get"
  /\ \E fail \in FaultChoices :
       LET res == IF fail THEN "error" ELSE IF cfg.exists THEN "ok" ELSE "notfound" IN
       /\ Log(Call("Get", ConfigKey, res))
       /\ IF res = "ok" /\ cfg.finalizer
          THEN /\ config' = cfg
               /\ Goto(P("reconcileDelete.RemoveFinalizer", 0), FALSE)
               /\ UNCHANGED << existing, acc, probed >>
          ELSE Finish(IF res = "error" THEN ApiErr(res, pc) ELSE NoErr, 0, FALSE)
  /\ UNCHANGED << cfg, objs, crds, clock, ext, calm, before >>

\* The stored object once the finalizer is removed: gone when it was marked
\* for deletion (no finalizer is left to hold it).
FinalizerRemoved(c) ==
  IF c.deleting THEN NoCfg
  ELSE [c EXCEPT !.finalizer = FALSE, !.rv = FreshRV({cfg.rv, config.rv})]

\* A faulty variant: the error of the finalizer update is dropped.
RemovalErrorDropped(res) == NoErr

\* if err := r.Update(ctx, config); err != nil { return ctrl.Result{}, err }
RemovalError(res) == ApiErr(res, "reconcileDelete.RemoveFinalizer")

\* controllerutil.RemoveFinalizer(config, FinalizerName); r.Update(ctx, config)
RemoveFinalizer ==
  /\ pc = "reconcileDelete.RemoveFinalizer"
  /\ \E fail \in FaultChoices :
       LET res == ConfigWrite(fail) IN
       /\ Log(Call("Update", ConfigKey, res))
       /\ cfg' = IF res = "ok" THEN FinalizerRemoved(cfg) ELSE cfg
       /\ IF res = "ok"
          THEN Finish(NoErr, 0, TRUE)
          ELSE Finish(RemovalError(res), 0, FALSE)
  /\ UNCHANGED << objs, crds, clock, ext, calm, before >>

\* ------------------------------------------------------------ specification

\* The steps of Reconcile outside the deletion sub-flow, each enabled at its
\* own position.
Sync ==
  \/ StartReconcile
  \/ ReconcileGet
  \/ AddFinalizer
  \/ SetDeploying
  \/ ReconcileNamespaceGet
  \/ ReconcileNamespaceCreate
  \/ ClusterRoleGet
  \/ ClusterRoleCreate
  \/ ClusterRoleUpdate
  \/ CreatedAt
  \/ ReconcileServiceAccountGet
  \/ ReconcileServiceAccountCreate
  \/ ReconcileServiceGet
  \/ ReconcileServiceCreate
  \/ ReconcileServiceUpdate
  \/ ReconcileNginxConfigGet
  \/ ReconcileNginxConfigCreate
  \/ ReconcileNginxConfigUpdate
  \/ ReconcileDeploymentGet
  \/ ReconcileDeploymentCreate
  \/ ReconcileDeploymentUpdate
  \/ ReconcileConsolePluginGet
  \/ ReconcileConsolePluginCreate
  \/ ReconcileConsolePluginUpdate
  \/ DetectOperators
  \/ SetReady
  \/ UpdateStatusError

\* The steps of reconcileDelete.
Deletion ==
  \/ CleanupConsolePlugin
  \/ CleanupPluginDeployment
  \/ CleanupRBAC
  \/ ReconcileDeleteGet
  \/ RemoveFinalizer

Controller == Sync \/ Deletion

\* The controller, its scheduler, and an administrator who edits and deletes
\* the configuration object while the controller runs.
Next ==
  \/ AdminEditSpec
  \/ AdminDelete
  \/ Timer
  \/ Controller

Spec == Init /\ [][Next]_vars

\* One generation of the spec, and cleanup Deletes that may fail every time:
\* every combination of cleanup failures in every deletion reconcile.
ControllerCleanup ==
  \/ Sync
  \/ CleanupConsolePluginFailing
  \/ CleanupPluginDeploymentFailing
  \/ CleanupRBACFailing
  \/ ReconcileDeleteGet
  \/ RemoveFinalizer

NextCleanup ==
  \/ AdminDelete
  \/ Timer
  \/ ControllerCleanup

SpecCleanup == Init /\ [][NextCleanup]_vars

\* The scheduler runs a queued request and a running Reconcile goes on.
LiveSpec == SpecCleanup /\ WF_vars(ControllerCleanup)

\* An owned object as an earlier Reconcile of the spec made it.
Made(k, spec) ==
  [ exists |-> TRUE, rv |-> 1, owned |-> DesiredOf(k, spec), other |-> 0, created |-> 1, avail |-> 0 ]

\* Other actors at work on the owned objects, the peer CRDs and the clock,
\* with API calls that do not fail.  The cluster may hold ClusterRoles of the
\* spec from an earlier installation (a cleanup that failed leaves them).
InitEnv ==
  /\ \E s \in SpecChoices :
       /\ cfg = NewConfig(s)
       /\ \E present \in SUBSET { BuiltRoles(s)[i].name : i \in 1..3 } :
            objs = [k \in Keys |-> IF k \in present THEN Made(k, s) ELSE Absent]
  /\ crds = [op \in Operators |-> [present |-> FALSE, versions |-> << >>]]
  /\ clock = 1
  /\ ext = 0
  /\ faults = 0
  /\ Queued

NextEnv ==
  \/ ExternalDelete
  \/ ExternalEdit
  \/ DeploymentStatus
  \/ CrdChange
  \/ Tick
  \/ Timer
  \/ Sync

SpecEnv == InitEnv /\ [][NextEnv]_vars

\* Peer operators in every state of installation, and CRD lookups that may
\* fail every time; every other API call succeeds and nobody else acts.
InitDetect ==
  /\ \E s \in SpecChoices : cfg = NewConfig(s)
  /\ objs = [k \in Keys |-> Absent]
  /\ crds \in [Operators -> CrdChoices]
  /\ clock = 1
  /\ ext = 0
  /\ faults = 0
  /\ Queued

NextDetect ==
  \/ Timer
  \/ Sync
  \/ DetectOperatorsFailing

SpecDetect == InitDetect /\ [][NextDetect]_vars

\* The condition setter on its own: the in-memory object holds any conditions
\* list with at most one entry per Type, and setCondition is called with any
\* Type, Status, Reason and Message at any time.
InitConditions ==
  /\ cfg = NewConfig(BaseSpec)
  /\ objs = [k \in Keys |-> Absent]
  /\ crds = [op \in Operators |-> [present |-> FALSE, versions |-> << >>]]
  /\ clock = 1
  /\ ext = 0
  /\ faults = 0
  /\ queue = FALSE
  /\ pc = "idle"
  /\ \E n \in 0..3 :
       \E conds \in [ 1..n -> [ type : { ConditionPluginDeployed, ConditionRBACConfigured,
                                         ConditionConsolePluginRegistered },
                                status : {"True", "False", "Unknown"},
                                reason : {"Initial"},
                                message : {"initial"},
                                lastTransitionTime : {1} ] ] :
         /\ \A i, j \in 1..n : conds[i].type = conds[j].type => i = j
         /\ config = [NewConfig(BaseSpec) EXCEPT !.status.conditions = conds]
  /\ existing = NoObj
  /\ err = NoErr
  /\ idx = 0
  /\ acc = << >>
  /\ probed = {}
  /\ tried = << >>
  /\ result = NoResult
  /\ last = NoCall
  /\ allOk = TRUE
  /\ calm = TRUE
  /\ clean = FALSE
  /\ before = NoBefore

\* r.setCondition(config, condType, status, reason, message)
SetConditionCall ==
  /\ pc = "idle"
  /\ config.exists
  /\ \E condType \in { ConditionPluginDeployed, ConditionRBACConfigured,
                        ConditionConsolePluginRegistered },
        status \in {"True", "False", "Unknown"},
        text \in { <<"Initial", "initial">>, <<"Changed", "changed">> } :
       /\ config' = [ config EXCEPT !.status.conditions =
                        setCondition(@, condType, status, text[1], text[2], clock) ]
       /\ last' = [verb |-> "setCondition", key |-> condType, res |-> status, at |-> text[1]]
  /\ UNCHANGED << cfg, objs, crds, clock, ext, faults, queue, pc, existing, err, idx, acc,
                  probed, tried, result, allOk, calm, clean, before >>

NextConditions ==
  \/ Tick
  \/ SetConditionCall

SpecConditions == InitConditions /\ [][NextConditions]_vars

\* The controller and its requeue timer alone.
NextAny ==
  \/ Timer
  \/ Sync

\* Every combination of empty, well-formed and malformed resource strings in
\* the four fields, on a cluster with or without the plugin Deployment of an
\* earlier spec; no API call fails and nobody else acts.
InitQuantities ==
  /\ \E r \in [ requestsCpu : {"", "250m", "not-a-number"},
                 requestsMemory : {"", "64Mi", "1.5.5Gi"},
                 limitsCpu : {"", "250m", "not-a-number"},
                 limitsMemory : {"", "64Mi", "not-a-number"} ] :
       cfg = NewConfig([BaseSpec EXCEPT !.resources = r])
  /\ \E present \in SUBSET {DeploymentKey} :
       objs = [k \in Keys |-> IF k \in present THEN Made(k, BaseSpec) ELSE Absent]
  /\ crds = [op \in Operators |-> [present |-> FALSE, versions |-> << >>]]
  /\ clock = 1
  /\ ext = 0
  /\ faults = 0
  /\ Queued

SpecQuantities == InitQuantities /\ [][NextAny]_vars

\* Any starting point: every object the spec asks for is independently absent
\* or present as the controller creates it, and the configuration object is
\* new or as a Reconcile that stopped early left it; no API call fails.
Stopped(s, phase) ==
  [ NewConfig(s) EXCEPT !.finalizer = TRUE, !.rv = 2, !.status.phase = phase ]

InitAny ==
  /\ \E s \in SpecChoices :
       /\ cfg \in { NewConfig(s), Stopped(s, PhaseDeploying), Stopped(s, PhaseError) }
       /\ \E present \in SUBSET (PluginKeys \cup { BuiltRoles(s)[i].name : i \in 1..3 }) :
            objs = [k \in Keys |-> IF k \in present THEN Made(k, s) ELSE Absent]
  /\ crds = [op \in Operators |-> [present |-> FALSE, versions |-> << >>]]
  /\ clock = 1
  /\ ext = 0
  /\ faults = 0
  /\ Queued

SpecAny == InitAny /\ [][NextAny]_vars

\* ------------------------------------------------------------------ claims

\* C1 (idempotence of Reconcile): when a Reconcile of a non-deleted object
\* ended Ready with every API call succeeding, and the next Reconcile of the
\* unchanged object does so too, the owned objects and the persisted status
\* after the second run equal those after the first, timestamps and
\* resourceVersions aside.
C1_Idempotent ==
  (pc = "idle" /\ before.clean /\ clean) => View = before.view

\* A Reconcile of the stored, non-deleted object has returned; none of its
\* API calls failed and nobody else touched the object meanwhile.
RanClean ==
  /\ pc = "idle"
  /\ last # NoCall
  /\ allOk
  /\ calm
  /\ cfg.exists
  /\ ~cfg.deleting

\* C2 as stated (convergence from any starting point): from every starting
\* point, one Reconcile whose API calls all succeed ends with every owned
\* object present with the desired values and Phase = Ready.
C2_ConvergesAnySpec == RanClean => Settled

\* C2 amended: the same, for a spec whose four resource quantities are empty
\* or parse.
C2_ConvergesWhenQuantitiesParse ==
  (RanClean /\ ParseResources(cfg.spec) = NoErr) => Settled

\* A Reconcile that started from a partly applied state has converged.
C2_Witness ==
  RanClean /\ before.partial /\ ParseResources(cfg.spec) = NoErr /\ Settled

\* The three cleanup steps of reconcileDelete, in the order of the code.
CleanupSteps == << "cleanupConsolePlugin", "cleanupPluginDeployment", "cleanupRBAC" >>

\* The cleanup steps the running reconcileDelete has called so far.
StepsTried == [i \in DOMAIN tried |-> tried[i].step]

\* This step is a return of Reconcile.
Returns == pc # "idle" /\ pc' = "idle"

\* This step is a step of the running Reconcile.
Moves == pc # "idle" /\ << pc, idx, probed >>' # << pc, idx, probed >>

\* C3 (finalizer lifecycle): a Reconcile that returns success on a
\* non-deleted object leaves the finalizer on the stored object; and the
\* finalizer leaves the stored object only by the update of a deletion
\* reconcile (DeletionTimestamp set) that has called the console, plugin
\* and RBAC cleanup steps before, whatever their outcome.
C3_FinalizerLifecycle ==
  [][ /\ (Returns /\ result'.err = NoErr /\ config.exists /\ ~config.deleting)
           => (cfg'.exists /\ cfg'.finalizer)
      /\ (cfg.exists /\ cfg.finalizer /\ ~(cfg'.exists /\ cfg'.finalizer))
           => /\ pc = "reconcileDelete.RemoveFinalizer"
              /\ cfg.deleting
              /\ config.deleting
              /\ StepsTried = CleanupSteps ]_vars

\* A deletion reconcile has removed the finalizer although the console
\* cleanup failed and left the registration behind.
C3_Witness ==
  /\ pc = "idle"
  /\ ~cfg.exists
  /\ last.at = "reconcileDelete.RemoveFinalizer"
  /\ last.res = "ok"
  /\ objs[ConsolePluginKey].exists

\* The objects each cleanup step is to delete.
CleanupTargets(step, spec) ==
  CASE step = "cleanupConsolePlugin" -> {ConsolePluginKey}
    [] step = "cleanupPluginDeployment" -> {DeploymentKey, ServiceKey, ServiceAccountKey, ConfigMapKey}
    [] step = "cleanupRBAC" -> { ResolvePrefix(spec) \o suffix : suffix \in {"-view", "-delete", "-admin"} }

InCleanup == pc \in Range(CleanupSteps)

\* C4 (best-effort cleanup): whatever cleanup steps fail, reconcileDelete
\* calls the console, plugin and RBAC cleanup in that order before it
\* re-fetches the object; a not-found answer to a Delete does not fail its
\* step, and a step that did not fail has left none of its objects behind;
\* no cleanup step makes reconcileDelete return, and an error a deletion
\* reconcile returns is the error of its re-fetch or of its finalizer update.
C4_BestEffortCleanup ==
  [][ /\ StepsTried' = SubSeq(CleanupSteps, 1, Len(tried'))
      /\ (pc' = "reconcileDelete.Get" /\ pc # pc')
           => /\ StepsTried' = CleanupSteps
              /\ \A i \in 1..3 : ~tried'[i].failed =>
                   \A k \in CleanupTargets(CleanupSteps[i], config.spec) : ~objs'[k].exists
      /\ (InCleanup /\ last'.res = "notfound") => ~tried'[Len(tried')].failed
      /\ InCleanup => pc' \in Range(CleanupSteps) \cup {"reconcileDelete.Get"}
      /\ (Returns /\ config.deleting /\ result'.err # NoErr)
           => /\ pc \in {"reconcileDelete.Get", "reconcileDelete.RemoveFinalizer"}
              /\ result'.err = ApiErr(last'.res, pc) ]_vars

\* All three cleanup steps have failed and reconcileDelete is about to remove
\* the finalizer.
C4_Witness ==
  /\ pc = "reconcileDelete.RemoveFinalizer"
  /\ StepsTried = CleanupSteps
  /\ \A i \in 1..3 : tried[i].failed

\* C5 (deletion liveness): an object marked for deletion is eventually gone,
\* however often the cleanup Deletes fail, once Get and Update of the object
\* stop failing; and when the finalizer update fails, reconcileDelete returns
\* the error of that update, the request is queued again and the stored
\* object still carries the finalizer.
C5_DeletionLiveness ==
  /\ (cfg.exists /\ cfg.deleting) ~> ~cfg.exists
  /\ [][ (Moves /\ pc = "reconcileDelete.RemoveFinalizer" /\ last'.res # "ok")
           => /\ Returns
              /\ result'.err = ApiErr(last'.res, pc)
              /\ queue'
              /\ cfg' = cfg
              /\ cfg'.finalizer ]_vars

\* The finalizer update has failed: the error is returned, the request is
\* queued again and the object is still there with its finalizer.
C5_Witness ==
  /\ pc = "idle"
  /\ last = [verb |-> "Update", key |-> ConfigKey, res |-> "error", at |-> "reconcileDelete.RemoveFinalizer"]
  /\ result.err # NoErr
  /\ queue
  /\ cfg.exists /\ cfg.deleting /\ cfg.finalizer

\* C6 (end-to-end deletion): a Reconcile that starts from the state a
\* successful reconcile produced, with DeletionTimestamp set, and whose API
\* calls all succeed leaves the Deployment, Service, ServiceAccount,
\* ConfigMap, the three ClusterRoles of the spec and the console
\* registration deleted and the configuration object gone.
C6_EndToEndDeletion ==
  (pc = "idle" /\ last # NoCall /\ allOk /\ calm /\ before.settled /\ before.deleting)
    => /\ \A k \in {DeploymentKey, ServiceKey, ServiceAccountKey, ConfigMapKey, ConsolePluginKey} :
            ~objs[k].exists
       /\ \A i \in 1..3 : ~objs[BuiltRoles(before.spec)[i].name].exists
       /\ ~cfg.exists

\* Such a deletion has run for a spec whose three ClusterRoles existed.
C6_Witness ==
  /\ pc = "idle" /\ last # NoCall /\ allOk /\ calm /\ before.settled /\ before.deleting
  /\ before.spec.createDefaultRoles
  /\ last.at = "reconcileDelete.RemoveFinalizer"
  /\ ~cfg.exists

\* C7 (end-to-end creation): one Reconcile of a fresh object (generation 1,
\* no finalizer, empty status) with CreateDefaultRoles = true, RolePrefix
\* "secrets-management" and Replicas = 2 on an empty cluster, all API calls
\* succeeding, leaves the finalizer, the Namespace, the three ClusterRoles
\* secrets-management-view/-delete/-admin, the ServiceAccount, Service,
\* ConfigMap, the Deployment with 2 replicas and the console registration,
\* Phase = Ready and ObservedGeneration = 1.
C7_EndToEndCreation ==
  (RanClean /\ before.fresh /\ cfg.spec = BaseSpec)
    => /\ cfg.finalizer
       /\ \A k \in PluginKeys : objs[k].exists
       /\ \A name \in {"secrets-management-view", "secrets-management-delete",
                       "secrets-management-admin"} : objs[name].exists
       /\ objs[DeploymentKey].owned.spec.replicas = 2
       /\ cfg.status.phase = PhaseReady
       /\ cfg.status.observedGeneration = 1

\* Such a first Reconcile has returned.
C7_Witness ==
  /\ RanClean /\ before.fresh /\ cfg.spec = BaseSpec
  /\ BaseSpec.createDefaultRoles /\ BaseSpec.rolePrefix = "secrets-management" /\ BaseSpec.replicas = 2
  /\ result = [err |-> NoErr, requeueAfter |-> RequeueInterval]

\* The synchronizers' positions in the order of the claim, by the object the
\* call is made on: namespace, view / delete / admin role, ServiceAccount,
\* Service, ConfigMap, Deployment, console registration, then the CRD
\* lookups of operator detection.  reconcileRBAC's look-ups of the creation
\* timestamps follow its three role writes.
OrderOf(call) ==
  CASE call.key = NamespaceKey -> 1
    [] call.key \in RoleNames /\ call.at = "reconcileRBAC.createdAt" -> 5
    [] call.key \in RoleNames ->
         (CHOOSE i \in 1..3 : \E prefix \in RolePrefixes \cup {DefaultRolePrefix} :
            call.key = prefix \o << "-view", "-delete", "-admin" >>[i]) + 1
    [] call.key = ServiceAccountKey -> 6
    [] call.key = ServiceKey -> 7
    [] call.key = ConfigMapKey -> 8
    [] call.key = DeploymentKey -> 9
    [] call.key = ConsolePluginKey -> 10
    [] call.key \in Range(operatorCRDs) -> 11
    [] OTHER -> 0

\* The call was made by a synchronizer (not by detection, not on the
\* configuration object).
BySync(call) == OrderOf(call) \in 1..10

\* This step makes an API call in the Reconcile that made the call in last.
CallsAgain == Moves /\ last # NoCall /\ last'.at = pc

\* C8 (fixed sync order, stop on first failure): inside one non-deletion
\* Reconcile the synchronizers' API calls come in the order namespace, view,
\* delete, admin role, ServiceAccount, Service, ConfigMap, Deployment, console
\* registration, operator detection after them; and once a synchronizer has
\* failed (a failed call other than reconcileRBAC's look-up of a creation
\* timestamp, which it tolerates, or a quantity that does not parse) the only
\* call that Reconcile still makes is the status write of updateStatusError.
C8_SyncOrder ==
  [][ /\ (CallsAgain /\ ~config.deleting /\ BySync(last) /\ OrderOf(last') # 0)
           => OrderOf(last) <= OrderOf(last')
      /\ (CallsAgain /\ ~config.deleting /\ BySync(last) /\ Failed(last.res)
            /\ last.at # "reconcileRBAC.createdAt")
           => /\ pc = "updateStatusError"
              /\ last'.key = ConfigKey
              /\ Returns
      /\ (Moves /\ pc = "updateStatusError") => (last'.key = ConfigKey /\ Returns) ]_vars

\* The Service synchronizer has failed after the namespace, RBAC and
\* ServiceAccount synchronizers ran, and Reconcile has returned after the
\* status write.
C8_Witness ==
  /\ pc = "idle"
  /\ last.at = "updateStatusError"
  /\ result.err = ApiErr("error", "reconcileService.Get")
  /\ objs[NamespaceKey].exists
  /\ objs[ServiceAccountKey].exists
  /\ ~objs[ServiceKey].exists
  /\ ~objs[DeploymentKey].exists
  /\ ~objs[ConsolePluginKey].exists

\* C9 (error propagation): whenever a sync step has failed, Reconcile
\* persists Status.Phase = Error and returns the error of the failed sync
\* step.
C9_ErrorPropagated ==
  [][ (Moves /\ pc = "updateStatusError")
        => /\ Returns
           /\ cfg'.exists
           /\ cfg'.status.phase = PhaseError
           /\ result'.err = err ]_vars

\* C10 (ObservedGeneration under concurrent spec edits): the persisted
\* ObservedGeneration changes only in the Ready write of a Reconcile, to the
\* generation of the stored spec, which is the spec that Reconcile read and
\* whose owned objects all exist with the fields it asks for; and a Reconcile
\* that returns an error leaves the persisted ObservedGeneration as it was.
C10_ObservedGeneration ==
  [][ /\ (cfg.exists /\ cfg'.exists
            /\ cfg'.status.observedGeneration # cfg.status.observedGeneration)
           => /\ pc = "Reconcile.SetReady"
              /\ cfg'.status.phase = PhaseReady
              /\ cfg'.status.observedGeneration = cfg'.generation
              /\ cfg'.generation = config.generation
              /\ cfg'.spec = config.spec
              /\ \A k \in DesiredKeys(config.spec) :
                   objs'[k].exists /\ objs'[k].owned = DesiredOf(k, config.spec)
      /\ (Returns /\ result'.err # NoErr /\ cfg.exists /\ cfg'.exists)
           => cfg'.status.observedGeneration = cfg.status.observedGeneration ]_vars

\* The administrator has edited the spec while the controller was at work,
\* and a Reconcile has recorded the new generation as observed.
C10_Witness ==
  /\ pc = "idle"
  /\ ~calm
  /\ cfg.exists
  /\ cfg.generation = 2
  /\ cfg.status.observedGeneration = 2
  /\ cfg.status.phase = PhaseReady

\* C11 (operator detection never degrades the reconcile): when only the CRD
\* lookups fail, whatever each of the three answers (found, not found, an
\* error), a lookup never returns from Reconcile, never hands an error to
\* updateStatusError and never touches the phase; every Reconcile whose four
\* syncs succeeded (it reached detection) persists Phase = Ready and
\* ObservedGeneration = generation and returns success with the requeue
\* interval; and the only error a Reconcile returns, and the only cause of
\* Phase = Error, is a quantity of the spec that does not parse.
C11_DetectionNeverDegrades ==
  [][ /\ (Moves /\ pc = "detectOperators")
           => /\ pc' \in {"detectOperators", "Reconcile.SetReady"}
              /\ err' = NoErr
              /\ config'.status.phase = config.status.phase
              /\ cfg' = cfg
      /\ (Moves /\ pc = "Reconcile.SetReady")
           => /\ Returns
              /\ result' = [err |-> NoErr, requeueAfter |-> RequeueInterval]
              /\ cfg'.status.phase = PhaseReady
              /\ cfg'.status.observedGeneration = cfg'.generation
      /\ (Returns /\ result'.err # NoErr)
           => (result'.err.kind = "quantity" /\ cfg'.status.phase = PhaseError)
      /\ cfg'.status.phase = PhaseError => ParseResources(cfg'.spec) # NoErr ]_vars

\* A Reconcile has ended Ready and successful after one lookup found its CRD,
\* one failed with an error although the CRD is installed, and one met no CRD.
C11_Witness ==
  /\ pc = "idle"
  /\ ~allOk
  /\ result = [err |-> NoErr, requeueAfter |-> RequeueInterval]
  /\ cfg.status.phase = PhaseReady
  /\ cfg.status.observedGeneration = cfg.generation
  /\ \E found, failing, absent \in Operators :
       /\ crds[found].present /\ cfg.status.detectedOperators[found].installed
       /\ crds[failing].present /\ ~cfg.status.detectedOperators[failing].installed
       /\ ~crds[absent].present

\* C12 (operator detection result): every lookup of detectOperators sets the
\* entry of the operator it looked up, and no other entry: Installed is true
\* exactly when the lookup succeeded, and Version is the name of the first
\* version, in declared order, of the definition's version list that is
\* served, "" when the operator is not installed or no version is served.
C12_DetectionResult ==
  [][ (Moves /\ pc = "detectOperators")
        => \E op \in Operators :
             LET d == config'.status.detectedOperators[op]
                 v == crds[op].versions
             IN /\ last'.key = operatorCRDs[op]
                /\ d.installed = (last'.res = "ok")
                /\ (last'.res = "ok") => crds[op].present
                /\ IF d.installed /\ \E i \in DOMAIN v : v[i].served
                   THEN \E i \in DOMAIN v :
                          /\ v[i].served
                          /\ \A j \in 1..(i - 1) : ~v[j].served
                          /\ d.version = v[i].name
                   ELSE d.version = ""
                /\ \A other \in Operators \ {op} :
                     config'.status.detectedOperators[other] = config.status.detectedOperators[other] ]_vars

\* Detection has recorded, in one Reconcile, an operator whose second declared
\* version is the first served one, an operator without a served version, and
\* an operator that is not installed.
C12_Witness ==
  /\ pc = "idle"
  /\ cfg.status.phase = PhaseReady
  /\ \E a, b, c \in Operators :
       /\ Len(crds[a].versions) = 3
       /\ cfg.status.detectedOperators[a] = [installed |-> TRUE, version |-> "v1beta1"]
       /\ crds[b].present /\ Len(crds[b].versions) = 1
       /\ cfg.status.detectedOperators[b] = [installed |-> TRUE, version |-> ""]
       /\ ~crds[c].present
       /\ cfg.status.detectedOperators[c] = [installed |-> FALSE, version |-> ""]

\* C13 as stated (RBAC disabled): after every Reconcile of a configuration
\* whose CreateDefaultRoles is false, no ClusterRole <prefix>-view, -delete
\* or -admin of the configured prefix exists and Status.RBAC.ClusterRoles is
\* empty.
C13_NoRolesWhenDisabled ==
  (pc = "idle" /\ last # NoCall /\ calm /\ cfg.exists /\ ~cfg.deleting
     /\ ~cfg.spec.createDefaultRoles)
    => /\ \A i \in 1..3 : ~objs[BuiltRoles(cfg.spec)[i].name].exists
       /\ cfg.status.rbac = << >>

\* C13 amended: a Reconcile of a configuration whose CreateDefaultRoles is
\* false creates no ClusterRole and adds nothing to Status.RBAC.ClusterRoles:
\* each of its steps leaves every ClusterRole and the persisted
\* Status.RBAC.ClusterRoles as they were, so that a Reconcile that started
\* from a new object on an empty cluster ends with no ClusterRole and an
\* empty Status.RBAC.ClusterRoles.
C13_DisabledAddsNoRoles ==
  [][ /\ (Moves /\ config.exists /\ ~config.deleting /\ ~config.spec.createDefaultRoles)
           => /\ \A name \in RoleNames : objs'[name] = objs[name]
              /\ cfg'.status.rbac = cfg.status.rbac
      /\ (Returns /\ config.exists /\ ~config.spec.createDefaultRoles /\ before.fresh)
           => /\ \A name \in RoleNames : ~objs'[name].exists
              /\ cfg'.exists => cfg'.status.rbac = << >> ]_vars

\* The first Reconcile of a new object with CreateDefaultRoles false on an
\* empty cluster has ended Ready without a ClusterRole.
C13_Witness ==
  /\ RanClean
  /\ before.fresh
  /\ ~cfg.spec.createDefaultRoles
  /\ cfg.status.phase = PhaseReady
  /\ cfg.status.rbac = << >>
  /\ \A name \in RoleNames : ~objs[name].exists
  /\ objs[DeploymentKey].exists

\* The positions of reconcileRBAC and createOrUpdateClusterRole.
RBACSteps ==
  { "createOrUpdateClusterRole.Get", "createOrUpdateClusterRole.Create",
    "createOrUpdateClusterRole.Update", "reconcileRBAC.createdAt" }

\* C14 (RBAC sync is a no-op when CreateDefaultRoles is false): a Reconcile
\* of such a configuration goes from the namespace sync straight to the
\* ServiceAccount sync with Status.RBAC.ClusterRoles and Conditions as they
\* were, never is at a position of the RBAC sync, makes no API call on a
\* ClusterRole, and leaves every ClusterRole and Status.RBAC.ClusterRoles
\* untouched all along: ClusterRoles made by an earlier Reconcile with the
\* flag true stay in place.
C14_DisabledIsNoOp ==
  [][ /\ (Moves /\ config.exists /\ ~config.deleting /\ ~config.spec.createDefaultRoles)
           => /\ pc \notin RBACSteps
              /\ pc' \notin RBACSteps
              /\ last'.key \notin RoleNames
              /\ \A name \in RoleNames : objs'[name] = objs[name]
              /\ pc' # "idle" => config'.status.rbac = config.status.rbac
      /\ (Moves /\ ~config.spec.createDefaultRoles
            /\ pc \in {"reconcileNamespace.Get", "reconcileNamespace.Create"}
            /\ ~Failed(last'.res)
            /\ pc' # "reconcileNamespace.Create")
           => /\ pc' = "reconcileServiceAccount.Get"
              /\ config'.status.rbac = config.status.rbac
              /\ config'.status.conditions = config.status.conditions ]_vars

\* CreateDefaultRoles has been toggled from true to false, and the Reconcile
\* of the new spec has ended Ready with the three ClusterRoles and their
\* status entries still in place.
C14_Witness ==
  /\ RanClean
  /\ ~cfg.spec.createDefaultRoles
  /\ cfg.generation = 2
  /\ cfg.status.phase = PhaseReady
  /\ cfg.status.observedGeneration = 2
  /\ Len(cfg.status.rbac) = 3
  /\ \A i \in 1..3 : objs[cfg.status.rbac[i].name].exists

\* C15 (Created-timestamp preservation): the Created timestamp reconcileRBAC
\* resolves for a role name is the one Status.RBAC.ClusterRoles already
\* records for that name, if any, and then no lookup is made; otherwise the
\* creation timestamp of the live role when the lookup finds it; otherwise
\* the current time.  The timestamps resolved are the ones written to the
\* status, and a persisted Created timestamp of a role name never changes,
\* however often the RBAC sync runs again and updates or re-creates the role.
C15_CreatedPreserved ==
  [][ /\ (Moves /\ pc = "reconcileRBAC.createdAt")
           => LET name == BuiltRoles(config.spec)[idx].name
                  resolved == IF idx < 3 THEN acc'[idx] ELSE config'.status.rbac[idx].created
                  prior == { i \in DOMAIN config.status.rbac : config.status.rbac[i].name = name }
              IN /\ idx \in 1..3
                 /\ IF prior # {}
                    THEN /\ \A i \in prior : resolved = config.status.rbac[i].created
                         /\ last' = last
                    ELSE /\ last'.key = name /\ last'.at = pc
                         /\ (last'.res = "ok") = objs[name].exists
                         /\ resolved = IF objs[name].exists /\ objs[name].created # 0
                                       THEN objs[name].created ELSE clock
                 /\ idx = 3 => /\ \A i \in 1..2 : config'.status.rbac[i].created = acc[i]
                               /\ \A i \in 1..3 :
                                    config'.status.rbac[i].name = BuiltRoles(config.spec)[i].name
      /\ \A i \in DOMAIN cfg.status.rbac, j \in DOMAIN cfg'.status.rbac :
           cfg.status.rbac[i].name = cfg'.status.rbac[j].name
             => cfg.status.rbac[i].created = cfg'.status.rbac[j].created ]_vars

\* A role whose Created timestamp the status recorded at time 1 has been
\* re-created at time 2, and the Reconcile that re-created it has ended Ready
\* with the recorded timestamp still 1.
C15_Witness ==
  /\ pc = "idle"
  /\ clock = 2
  /\ result.err = NoErr
  /\ last.at = "Reconcile.SetReady"
  /\ cfg.status.phase = PhaseReady
  /\ \E i \in DOMAIN cfg.status.rbac :
       /\ cfg.status.rbac[i].created = 1
       /\ objs[cfg.status.rbac[i].name].exists
       /\ objs[cfg.status.rbac[i].name].created = 2

\* No two entries of the list have the same Type.
OnePerType(conds) == \A i, j \in DOMAIN conds : conds[i].type = conds[j].type => i = j

\* C16 (condition dedup): starting from any conditions list with at most one
\* entry per Type, after every sequence of setCondition calls the list has
\* at most one entry per Type; a call with the Type and Status of an
\* existing entry leaves the whole list, that entry's timestamp included, as
\* it was; a call with the Type of an existing entry and another Status
\* replaces that entry at its position by the new condition with the current
\* time, every other entry, the length and the order staying; a call with a
\* new Type appends exactly one entry, the new condition, at the end.
C16_ConditionDedup ==
  [][ (last'.verb = "setCondition" /\ clock' = clock)
        => LET old == config.status.conditions
               new == config'.status.conditions
               condition == [ type |-> last'.key, status |-> last'.res, reason |-> last'.at,
                              message |-> IF last'.at = "Initial" THEN "initial" ELSE "changed",
                              lastTransitionTime |-> clock ]
               hits == { i \in DOMAIN old : old[i].type = last'.key }
           IN /\ OnePerType(old)
              /\ OnePerType(new)
              /\ IF hits = {}
                 THEN /\ Len(new) = Len(old) + 1
                      /\ SubSeq(new, 1, Len(old)) = old
                      /\ new[Len(new)] = condition
                 ELSE \A i \in hits :
                        IF old[i].status = last'.res
                        THEN new = old
                        ELSE /\ Len(new) = Len(old)
                             /\ \A j \in DOMAIN old : j # i => new[j] = old[j]
                             /\ new[i] = condition ]_vars

\* After calls at time 2, a list of three conditions set at time 1 holds an
\* entry replaced in place at time 2 between entries that kept their
\* timestamp, although one of them was set again with its Status and a new
\* Reason.
C16_Witness ==
  /\ last.verb = "setCondition"
  /\ last.at = "Changed"
  /\ Len(config.status.conditions) = 3
  /\ config.status.conditions[2].lastTransitionTime = 2
  /\ config.status.conditions[2].reason = "Changed"
  /\ config.status.conditions[1].lastTransitionTime = 1
  /\ config.status.conditions[3].lastTransitionTime = 1
  /\ last.key = config.status.conditions[1].type
  /\ last.res = config.status.conditions[1].status
  /\ config.status.conditions[1].reason = "Initial"

\* The four resource strings of a spec with the field paths of the API, and
\* the default of each field.
QuantityFields(spec) ==
  << [path |-> "spec.plugin.resources.requests.cpu", val |-> spec.resources.requestsCpu, default |-> "10m"],
     [path |-> "spec.plugin.resources.requests.memory", val |-> spec.resources.requestsMemory, default |-> "50Mi"],
     [path |-> "spec.plugin.resources.limits.cpu", val |-> spec.resources.limitsCpu, default |-> "100m"],
     [path |-> "spec.plugin.resources.limits.memory", val |-> spec.resources.limitsMemory, default |-> "128Mi"] >>

Malformed(spec) ==
  { i \in 1..4 : QuantityFields(spec)[i].val \notin {"", "250m", "64Mi"} }

\* C17 (quantity validation), every API call succeeding: a Reconcile of a
\* spec with a malformed resource string makes no API call on the Deployment
\* and leaves it as it was, returns an error that names a malformed field
\* with its value (the one malformed field when there is only one, the first
\* in the order requests.cpu, requests.memory, limits.cpu, limits.memory
\* otherwise) and persists Phase = Error; a Reconcile of a spec without a
\* malformed string succeeds and leaves a Deployment whose four quantities
\* are the strings of the spec, the default where the string is empty.
C17_QuantityValidation ==
  [][ /\ (Moves /\ config.exists /\ Malformed(config.spec) # {})
           => /\ objs'[DeploymentKey] = objs[DeploymentKey]
              /\ last'.key # DeploymentKey
              /\ pc' \notin {"reconcileDeployment.Get", "reconcileDeployment.Create",
                             "reconcileDeployment.Update"}
      /\ (Returns /\ config.exists /\ Malformed(config.spec) # {})
           => /\ result'.err.kind = "quantity"
              /\ \E i \in Malformed(config.spec) :
                   /\ \A j \in Malformed(config.spec) : i <= j
                   /\ result'.err.field = QuantityFields(config.spec)[i].path
                   /\ result'.err.val = QuantityFields(config.spec)[i].val
              /\ cfg'.status.phase = PhaseError
      /\ (Returns /\ config.exists /\ Malformed(config.spec) = {})
           => /\ result'.err = NoErr
              /\ cfg'.status.phase = PhaseReady
              /\ objs'[DeploymentKey].exists
              /\ \A i \in 1..4 :
                   objs'[DeploymentKey].owned.spec.resources[i] =
                     IF QuantityFields(config.spec)[i].val = ""
                     THEN QuantityFields(config.spec)[i].default
                     ELSE QuantityFields(config.spec)[i].val ]_vars

\* A Reconcile of a spec whose only malformed string is the CPU limit, with
\* an empty memory request, has returned the error naming limits.cpu with
\* Phase = Error, and the Deployment of the earlier spec is as it was.
C17_Witness ==
  /\ pc = "idle"
  /\ Malformed(cfg.spec) = {3}
  /\ cfg.spec.resources.requestsMemory = ""
  /\ result.err = [kind |-> "quantity", field |-> "spec.plugin.resources.limits.cpu",
                   val |-> "not-a-number"]
  /\ cfg.status.phase = PhaseError
  /\ objs[DeploymentKey] = Made(DeploymentKey, BaseSpec)

\* C18 (absent object): when the configuration object of the request does
\* not exist, the Get of Reconcile is its only API call: Reconcile returns
\* success without a requeue delay and does not queue the request again (it
\* stays queued only if an event queued it meanwhile), and no owned object, CRD or stored configuration object is created, changed or
\* deleted.
C18_AbsentObject ==
  [][ (Moves /\ pc = "Reconcile.Get" /\ ~cfg.exists /\ last'.res = "notfound")
        => /\ Returns
           /\ result' = [err |-> NoErr, requeueAfter |-> 0]
           /\ last' = [verb |-> "Get", key |-> ConfigKey, res |-> "notfound", at |-> "Reconcile.Get"]
           /\ queue' = queue
           /\ objs' = objs
           /\ crds' = crds
           /\ cfg' = cfg ]_vars

\* The object is gone while owned objects are still on the cluster, and the
\* Reconcile of the request has returned after its Get was answered
\* not-found.
C18_Witness ==
  /\ pc = "idle"
  /\ ~cfg.exists
  /\ last = [verb |-> "Get", key |-> ConfigKey, res |-> "notfound", at |-> "Reconcile.Get"]
  /\ result = [err |-> NoErr, requeueAfter |-> 0]
  /\ ~queue
  /\ objs[NamespaceKey].exists
  /\ objs[DeploymentKey].exists

\* The API groups of the three rules of every role, in order.
RuleGroups == << <<"cert-manager.io">>, <<"external-secrets.io">>, <<"secrets-store.csi.x-k8s.io">> >>

\* The rules have the three groups in order and each grants exactly verbs.
Grants(rules, verbs) ==
  /\ Len(rules) = 3
  /\ \A i \in 1..3 : rules[i].apiGroups = RuleGroups[i] /\ Range(rules[i].verbs) = verbs

\* C19 (RBAC role content): for every prefix the built roles are named
\* <prefix>-view, <prefix>-delete and <prefix>-admin and each has three rules
\* for cert-manager.io, external-secrets.io and secrets-store.csi.x-k8s.io in
\* that order; every view rule grants exactly get, list, watch, every delete
\* rule exactly delete, every admin rule exactly *; and every ClusterRole the
\* controller has put on the cluster carries the rules of its kind.
C19_RoleContent ==
  /\ \A prefix \in RolePrefixes \cup {DefaultRolePrefix} :
       /\ buildViewClusterRole(prefix).name = prefix \o "-view"
       /\ buildDeleteClusterRole(prefix).name = prefix \o "-delete"
       /\ buildAdminClusterRole(prefix).name = prefix \o "-admin"
       /\ Grants(buildViewClusterRole(prefix).rules, {"get", "list", "watch"})
       /\ Grants(buildDeleteClusterRole(prefix).rules, {"delete"})
       /\ Grants(buildAdminClusterRole(prefix).rules, {"*"})
  /\ \A prefix \in {"secrets-management", "custom-prefix"} :
       /\ objs[prefix \o "-view"].exists
            => Grants(objs[prefix \o "-view"].owned.rules, {"get", "list", "watch"})
       /\ objs[prefix \o "-delete"].exists
            => Grants(objs[prefix \o "-delete"].owned.rules, {"delete"})
       /\ objs[prefix \o "-admin"].exists
            => Grants(objs[prefix \o "-admin"].owned.rules, {"*"})
  /\ (RanClean /\ cfg.spec.createDefaultRoles)
       => \A suffix \in {"-view", "-delete", "-admin"} :
            objs[(IF cfg.spec.rolePrefix = "" THEN "secrets-management" ELSE cfg.spec.rolePrefix)
                 \o suffix].exists

\* The roles of the default prefix and of a custom prefix are on the cluster.
C19_Witness ==
  /\ RanClean
  /\ cfg.spec.rolePrefix = "custom-prefix"
  /\ \A name \in { "custom-prefix-view", "custom-prefix-delete", "custom-prefix-admin",
                    "secrets-management-view", "secrets-management-delete",
                    "secrets-management-admin" } : objs[name].exists

\* The positions of reconcileDelete.
DeletionSteps ==
  Range(CleanupSteps) \cup {"reconcileDelete.Get", "reconcileDelete.RemoveFinalizer"}

\* C20 (branch separation): a Reconcile that fetched the object with
\* DeletionTimestamp set goes to the deletion sub-flow and stays there: its
\* API calls are Deletes of owned objects, the re-fetch and the finalizer
\* update; it creates or updates no owned object, looks up no CRD and leaves
\* the persisted status as it is.  A Reconcile that fetched the object
\* without DeletionTimestamp never is in the deletion sub-flow, makes no
\* Delete call and removes no owned object.
C20_BranchSeparation ==
  [][ /\ (Moves /\ pc = "Reconcile.Get" /\ last'.res = "ok")
           => IF cfg.deleting THEN pc' = "cleanupConsolePlugin" ELSE pc' \notin DeletionSteps
      /\ (Moves /\ config.exists /\ config.deleting)
           => /\ pc \in DeletionSteps
              /\ pc' \in DeletionSteps \cup {"idle"}
              /\ \/ last'.verb = "Delete" /\ last'.key \in Keys
                 \/ last'.verb = "Get" /\ last'.key = ConfigKey /\ pc = "reconcileDelete.Get"
                 \/ last'.verb = "Update" /\ last'.key = ConfigKey
                      /\ pc = "reconcileDelete.RemoveFinalizer"
              /\ \A k \in Keys : objs'[k] \in {objs[k], Absent}
              /\ cfg'.exists => (cfg'.status = cfg.status /\ cfg'.spec = cfg.spec)
      /\ (Moves /\ config.exists /\ ~config.deleting)
           => /\ pc \notin DeletionSteps
              /\ pc' \notin DeletionSteps
              /\ last'.verb # "Delete"
              /\ \A k \in Keys : objs[k].exists => objs'[k].exists ]_vars

\* A deletion reconcile has deleted the plugin objects and the roles and is
\* about to update the finalizer list; the persisted status is still the
\* Ready status of the last sync, and the namespace is still there.
C20_Witness ==
  /\ pc = "reconcileDelete.RemoveFinalizer"
  /\ config.deleting
  /\ allOk
  /\ cfg.status.phase = PhaseReady
  /\ cfg.status.plugin.deploymentName = PluginName \o "-plugin"
  /\ \A k \in Keys \ {NamespaceKey} : ~objs[k].exists
  /\ objs[NamespaceKey].exists

\* C21 (timed re-check): a return of Reconcile asks for a re-check after the
\* 5-minute interval exactly when that call has persisted Phase = Ready (its
\* Ready status write succeeded), and then it returns no error; every other
\* return (object absent, deletion branch, any error) carries no delay.
C21_TimedRecheck ==
  [][ Returns
        => /\ result'.requeueAfter \in {0, RequeueInterval}
           /\ (result'.requeueAfter = RequeueInterval)
                = (pc = "Reconcile.SetReady" /\ last'.res = "ok")
           /\ result'.requeueAfter = RequeueInterval
                => /\ result'.err = NoErr
                   /\ cfg'.status.phase = PhaseReady
                   /\ RequeueInterval = 5
           /\ (config.deleting \/ ~config.exists \/ result'.err # NoErr)
                => result'.requeueAfter = 0 ]_vars

\* The timer of a Ready result has fired, and the Reconcile it started has
\* again returned Ready with the 5-minute re-check.
C21_Witness ==
  /\ pc = "idle"
  /\ before.clean
  /\ result = [err |-> NoErr, requeueAfter |-> 5]
  /\ cfg.status.phase = PhaseReady
  /\ last.at = "Reconcile.SetReady"

\* C22 (Deploying signal): a Reconcile of a non-deleted object whose fetched
\* Status.Phase is empty or Pending writes the status with Phase = Deploying
\* before any synchronizer has made an API call; when that write succeeds
\* Deploying is persisted and the namespace sync comes next, when it fails
\* Reconcile returns the error of the write with no owned object created or
\* updated and the stored object as it was.  When the fetched Phase is any
\* other value the first synchronizer runs with no status write before it.
C22_DeployingSignal ==
  [][ /\ (Moves /\ pc \in {"Reconcile.Get", "Reconcile.AddFinalizer"} /\ last'.res = "ok"
            /\ pc' # "Reconcile.AddFinalizer" /\ ~config'.deleting)
           => pc' = IF config'.status.phase \in {"", PhasePending}
                    THEN "Reconcile.SetDeploying" ELSE "reconcileNamespace.Get"
      /\ (Moves /\ pc = "Reconcile.SetDeploying")
           => /\ config.status.phase \in {"", PhasePending}
              /\ last.key = ConfigKey
              /\ last'.verb = "StatusUpdate" /\ last'.key = ConfigKey
              /\ objs' = objs
              /\ IF last'.res = "ok"
                 THEN /\ cfg'.status.phase = PhaseDeploying
                      /\ config'.status.phase = PhaseDeploying
                      /\ pc' = "reconcileNamespace.Get"
                 ELSE /\ Returns
                      /\ result'.err = ApiErr(last'.res, pc)
                      /\ cfg' = cfg
      /\ (Moves /\ pc = "reconcileNamespace.Get")
           => \/ last.at = "Reconcile.SetDeploying" /\ last.res = "ok"
              \/ /\ last.at \in {"Reconcile.Get", "Reconcile.AddFinalizer"}
                 /\ last.verb # "StatusUpdate"
                 /\ config.status.phase \in {PhaseDeploying, PhaseReady, PhaseDegraded, PhaseError} ]_vars

\* The Deploying write of the first Reconcile has failed: the error is
\* returned, the cluster holds no owned object and the phase is still empty.
C22_Witness ==
  /\ pc = "idle"
  /\ last = [verb |-> "StatusUpdate", key |-> ConfigKey, res |-> "error",
             at |-> "Reconcile.SetDeploying"]
  /\ result.err = ApiErr("error", "Reconcile.SetDeploying")
  /\ ClusterEmpty
  /\ cfg.finalizer
  /\ cfg.status.phase = ""

\* The objects of the create-if-absent synchronizers.
CreateOnlyKeys == {NamespaceKey, ServiceAccountKey}

\* C23 (create-if-absent syncs leave existing objects untouched): the only
\* API calls the controller makes on the Namespace and on the ServiceAccount
\* outside the deletion flow are a Get and, after a Get answered not-found, a
\* Create; the Get of an existing Namespace or ServiceAccount is followed by
\* the next synchronizer, and no step of a Reconcile changes a field (labels,
\* fields of other owners, resourceVersion) of a Namespace or ServiceAccount
\* that exists.
C23_CreateIfAbsent ==
  [][ /\ (Moves /\ last'.key \in CreateOnlyKeys /\ last'.at = pc)
           => /\ last'.verb \in {"Get", "Create"}
              /\ last'.verb = "Create"
                   => (last.verb = "Get" /\ last.key = last'.key /\ last.res = "notfound")
      /\ (Moves /\ pc = "reconcileNamespace.Get" /\ objs[NamespaceKey].exists)
           => pc' \in {"reconcileServiceAccount.Get", "createOrUpdateClusterRole.Get"}
      /\ (Moves /\ pc = "reconcileServiceAccount.Get" /\ objs[ServiceAccountKey].exists)
           => pc' = "reconcileService.Get"
      /\ Moves => \A k \in CreateOnlyKeys : objs[k].exists => objs'[k] = objs[k] ]_vars

\* Another actor has changed the labels of the Namespace or the
\* ServiceAccount, and the Reconcile that followed has ended Ready with the
\* changed labels still in place.
C23_Witness ==
  /\ pc = "idle"
  /\ calm
  /\ last.at = "Reconcile.SetReady"
  /\ result.err = NoErr
  /\ \E k \in CreateOnlyKeys : objs[k].exists /\ objs[k].owned = [drifted |-> TRUE]

\* The names of the fields each updating synchronizer overwrites.
OwnedFieldNames(k) ==
  CASE k = ServiceKey -> {"labels", "annotations", "ports", "selector"}
    [] k = ConfigMapKey -> {"data"}
    [] k = DeploymentKey -> {"spec"}
    [] k = ConsolePluginKey -> {"labels", "spec"}
    [] OTHER -> {"labels", "rules"}

\* C24 (owned-fields-only update): of the owned objects only a ClusterRole,
\* the Service, the ConfigMap, the Deployment and the console registration
\* are ever sent in an Update; a successful one stores the desired value of exactly the
\* fields the synchronizer owns (Rules and Labels of a ClusterRole, spec and
\* labels of the console registration, data of the ConfigMap, spec of the
\* Deployment) and leaves every other field of the object (fields of other
\* owners, creation time, reported status) and every other object as they
\* were; a failed one changes nothing.
C24_OwnedFieldsOnly ==
  [][ (Moves /\ last'.verb = "Update" /\ last'.key \in Keys /\ last'.at = pc)
        => LET k == last'.key IN
           /\ k \notin CreateOnlyKeys
           /\ \A j \in Keys \ {k} : objs'[j] = objs[j]
           /\ last'.res # "ok" => objs' = objs
           /\ last'.res = "ok"
                => /\ objs'[k].owned = DesiredOf(k, config.spec)
                   /\ DOMAIN objs'[k].owned = OwnedFieldNames(k)
                   /\ objs'[k].exists
                   /\ objs'[k].other = objs[k].other
                   /\ objs'[k].created = objs[k].created
                   /\ objs'[k].avail = objs[k].avail
                   /\ (objs'[k].rv = objs[k].rv) = (objs[k].owned = DesiredOf(k, config.spec)) ]_vars

\* A synchronizer has just updated an object on which another actor had set
\* a field the controller does not own, and that field is still set.
C24_Witness ==
  /\ last.verb = "Update"
  /\ last.res = "ok"
  /\ last.key \in (RoleNames \cup {ConfigMapKey, DeploymentKey, ConsolePluginKey})
  /\ objs[last.key].other = 1
  /\ objs[last.key].owned = DesiredOf(last.key, cfg.spec)
  /\ pc \notin {"idle", last.at}

\* The steps at which a synchronizer sends its Update.
UpdateSteps ==
  { "createOrUpdateClusterRole.Update", "reconcileService.Update",
    "reconcileNginxConfig.Update", "reconcileDeployment.Update",
    "reconcileConsolePlugin.Update" }

\* C25 (no clobbering of concurrent edits): a synchronizer reaches its Update
\* only from its own Get in the same Reconcile, holding the object as that
\* Get returned it; when another actor has changed the object since (its
\* resourceVersion differs from the one read), the Update is answered with a
\* conflict, the stored object stays as the other actor left it, and the
\* Reconcile goes to its error path with that error; a Reconcile that returns
\* an error drops what it read and is queued again.
C25_NoClobbering ==
  [][ /\ (Moves /\ pc' \in UpdateSteps)
           => /\ last'.verb = "Get" /\ last'.res = "ok" /\ last'.at = pc
              /\ last'.key = NextKey'
              /\ existing' = [key |-> last'.key, obj |-> objs[last'.key]]
      /\ (Moves /\ pc \in UpdateSteps /\ objs[NextKey].exists /\ objs[NextKey].rv # existing.obj.rv)
           => /\ existing.key = NextKey
              /\ last' = [verb |-> "Update", key |-> NextKey, res |-> "conflict", at |-> pc]
              /\ objs' = objs
              /\ pc' = "updateStatusError"
              /\ err' = ApiErr("conflict", pc)
      /\ (Moves /\ pc \in UpdateSteps /\ last'.res = "ok")
           => objs[NextKey].rv = existing.obj.rv
      /\ (Returns /\ pc = "updateStatusError")
           => /\ result'.err # NoErr
              /\ last'.res = "ok" => result'.err = err
              /\ queue'
              /\ existing' = NoObj ]_vars

\* Another actor changed the console registration between the Get and the
\* Update of its synchronizer; the Reconcile has returned the conflict and
\* the change is still in place.
C25_Witness ==
  /\ pc = "idle"
  /\ result.err = ApiErr("conflict", "reconcileConsolePlugin.Update")
  /\ cfg.status.phase = PhaseError
  /\ queue
  /\ objs[ConsolePluginKey].exists
  /\ objs[ConsolePluginKey].owned = [drifted |-> TRUE] \/ objs[ConsolePluginKey].other = 1

\* The condition list holds a condition of the type with the status.
HasCondition(conds, condType, status) ==
  \E i \in DOMAIN conds : conds[i].type = condType /\ conds[i].status = status

\* C26 (plugin status consistency): a successful Update of the Deployment
\* sets the in-memory Status.Plugin to the three fixed names and the
\* AvailableReplicas of the stored Deployment, with Ready true exactly when
\* that number is above zero, and leaves a PluginDeployed condition with
\* status True; in the status stored after any step Plugin.Ready holds
\* exactly when Plugin.AvailableReplicas is above zero.
C26_PluginStatusConsistent ==
  [][ /\ (Moves /\ pc = "reconcileDeployment.Update" /\ last'.res = "ok")
           => /\ config'.status.plugin =
                   [ deploymentName |-> PluginName \o "-plugin",
                     serviceName |-> PluginName \o "-plugin",
                     consolePluginName |-> PluginName,
                     availableReplicas |-> objs[DeploymentKey].avail,
                     ready |-> objs[DeploymentKey].avail > 0 ]
              /\ HasCondition(config'.status.conditions, ConditionPluginDeployed, "True")
      /\ cfg'.status.plugin.ready = (cfg'.status.plugin.availableReplicas > 0)
      /\ config'.status.plugin.ready = (config'.status.plugin.availableReplicas > 0) ]_vars

\* The platform has reported an available replica, and the Reconcile that
\* followed has stored a ready plugin with the PluginDeployed condition.
C26_Witness ==
  /\ pc = "idle"
  /\ result.err = NoErr
  /\ cfg.status.plugin.ready
  /\ cfg.status.plugin.availableReplicas = objs[DeploymentKey].avail
  /\ objs[DeploymentKey].avail > 0
  /\ HasCondition(cfg.status.conditions, ConditionPluginDeployed, "True")

\* C27 (plugin status only on the update path): the in-memory Status.Plugin
\* and the PluginDeployed condition are written by no step of Reconcile other
\* than the Deployment's Update (the Get at the start loads them); so the
\* first Reconcile that finds a new object on an empty cluster and succeeds creates
\* the Deployment and stores Phase Ready with an empty Status.Plugin and no
\* PluginDeployed condition, and the undisturbed Reconcile after a clean one
\* stores Status.Plugin of the Deployment and PluginDeployed = True.
C27_PluginStatusOnUpdateOnly ==
  [][ /\ (Moves /\ pc \notin {"Reconcile.Get", "reconcileDeployment.Update"} /\ pc' # "idle")
           => /\ config'.status.plugin = config.status.plugin
              /\ \A s \in {"True", "False", "Unknown"} :
                   HasCondition(config'.status.conditions, ConditionPluginDeployed, s)
                     = HasCondition(config.status.conditions, ConditionPluginDeployed, s)
      /\ (Returns /\ before.fresh /\ config.exists /\ ~config.deleting /\ result'.err = NoErr)
           => /\ pc = "Reconcile.SetReady"
              /\ objs'[DeploymentKey].exists
              /\ cfg'.status.phase = PhaseReady
              /\ cfg'.status.plugin = EmptyPlugin
              /\ \A i \in DOMAIN cfg'.status.conditions :
                   cfg'.status.conditions[i].type # ConditionPluginDeployed
      /\ (Returns /\ before.clean /\ pc = "Reconcile.SetReady" /\ last'.res = "ok")
           => /\ cfg'.status.plugin = PluginStatusOf(objs'[DeploymentKey])
              /\ cfg'.status.plugin # EmptyPlugin
              /\ HasCondition(cfg'.status.conditions, ConditionPluginDeployed, "True") ]_vars

\* The first Reconcile on an empty cluster has succeeded: the Deployment
\* exists and the stored status is Ready with an empty Status.Plugin and no
\* PluginDeployed condition.
C27_Witness ==
  /\ pc = "idle"
  /\ before.fresh
  /\ result = [err |-> NoErr, requeueAfter |-> RequeueInterval]
  /\ objs[DeploymentKey].exists
  /\ cfg.status.phase = PhaseReady
  /\ cfg.status.plugin = EmptyPlugin
  /\ ~HasCondition(cfg.status.conditions, ConditionPluginDeployed, "True")

\* The three role names under the prefix of a spec.
NamesUnderPrefix(spec) ==
  LET prefix == IF spec.rolePrefix = "" THEN "secrets-management" ELSE spec.rolePrefix
  IN << prefix \o "-view", prefix \o "-delete", prefix \o "-admin" >>

\* C28 (cleanup goes by the current prefix): the i-th call of cleanupRBAC is
\* a Delete of the i-th of the three names formed from the RolePrefix of the
\* spec this Reconcile fetched ("secrets-management" when empty), whether
\* CreateDefaultRoles is set or not, and unless it fails the role is gone
\* and the next name follows; every call of a Reconcile on a ClusterRole is
\* on one of these three names, so a role under another prefix is left as it
\* is by every step; and no step removes the Namespace.
C28_CleanupByCurrentPrefix ==
  [][ /\ (Moves /\ pc = "cleanupRBAC")
           => /\ idx \in 1..3
              /\ last' = [ verb |-> "Delete", key |-> NamesUnderPrefix(config.spec)[idx],
                           res |-> last'.res, at |-> "cleanupRBAC" ]
              /\ last'.res \in {"ok", "notfound", "error"}
              /\ last'.res # "error"
                   => /\ ~objs'[last'.key].exists
                      /\ << pc', idx' >> = IF idx < 3 THEN << "cleanupRBAC", idx + 1 >>
                                           ELSE << "reconcileDelete.Get", 0 >>
      /\ (Moves /\ last'.at = pc /\ last'.key \in RoleNames)
           => last'.key \in Range(NamesUnderPrefix(config.spec))
      /\ Moves => \A k \in RoleNames \ Range(NamesUnderPrefix(config.spec)) : objs'[k] = objs[k]
      /\ objs[NamespaceKey].exists => objs'[NamespaceKey].exists
      /\ last'.key = NamespaceKey => last'.verb # "Delete" ]_vars

\* The roles of custom-prefix were created, the prefix was changed to the
\* default one, and the deletion has gone through without a failed call: no
\* role of the default prefix exists, those of the old prefix and the
\* Namespace are still there.
C28_Witness ==
  /\ pc = "idle"
  /\ ~cfg.exists
  /\ last = [verb |-> "Update", key |-> ConfigKey, res |-> "ok", at |-> "reconcileDelete.RemoveFinalizer"]
  /\ faults = MaxFaults
  /\ objs[NamespaceKey].exists
  /\ \A k \in {"custom-prefix-view", "custom-prefix-delete", "custom-prefix-admin"} : objs[k].exists
  /\ \A k \in {"secrets-management-view", "secrets-management-delete", "secrets-management-admin"} :
       ~objs[k].exists
  /\ \A k \in PluginKeys \ {NamespaceKey} : ~objs[k].exists

\* The objects a cleanup step deletes, in its order.
CleanupOrder(step, spec) ==
  IF step = "cleanupPluginDeployment"
  THEN << DeploymentKey, ServiceKey, ServiceAccountKey, ConfigMapKey >>
  ELSE NamesUnderPrefix(spec)

\* The position after a cleanup step.
AfterCleanup(step) ==
  IF step = "cleanupPluginDeployment" THEN << "cleanupRBAC", 1 >> ELSE << "reconcileDelete.Get", 0 >>

\* C29 (early stop inside a cleanup step): cleanupPluginDeployment deletes
\* Deployment, Service, ServiceAccount and ConfigMap in this order and
\* cleanupRBAC its three roles in order, one Delete each; a Delete that
\* fails with anything but not-found ends the step at once, so the objects
\* after it in the order are not deleted in this Reconcile (no later step
\* touches them), while a Delete that succeeds or finds nothing is followed
\* by the next object; the Reconcile still goes on to remove the finalizer
\* and, when that write succeeds, returns success with the object gone.
C29_EarlyStopInCleanup ==
  [][ /\ \A step \in {"cleanupPluginDeployment", "cleanupRBAC"} :
           (Moves /\ pc = step)
             => LET order == CleanupOrder(step, config.spec) IN
                /\ idx \in DOMAIN order
                /\ last' = [verb |-> "Delete", key |-> order[idx], res |-> last'.res, at |-> step]
                /\ \A k \in Keys \ {order[idx]} : objs'[k] = objs[k]
                /\ last'.res = "error"
                     => /\ objs' = objs
                        /\ << pc', idx' >> = AfterCleanup(step)
                /\ last'.res # "error"
                     => /\ ~objs'[order[idx]].exists
                        /\ << pc', idx' >> = IF idx < Len(order) THEN << step, idx + 1 >>
                                             ELSE AfterCleanup(step)
      /\ (Moves /\ pc = "cleanupRBAC")
           => \A k \in PluginKeys : objs'[k] = objs[k]
      /\ (Moves /\ pc \in {"reconcileDelete.Get", "reconcileDelete.RemoveFinalizer"})
           => objs' = objs
      /\ (Moves /\ pc = "reconcileDelete.Get" /\ last'.res = "ok" /\ cfg.finalizer)
           => pc' = "reconcileDelete.RemoveFinalizer"
      /\ (Moves /\ pc = "reconcileDelete.RemoveFinalizer" /\ last'.res = "ok")
           => /\ Returns
              /\ result' = [err |-> NoErr, requeueAfter |-> 0]
              /\ ~cfg'.exists ]_vars

\* The Delete of the Service failed after the Deployment was deleted, and
\* the Delete of the second role failed after the first was deleted: the
\* Reconcile has returned success, the object is gone, and the Service, the
\* ServiceAccount, the ConfigMap and the last two roles are still there.
C29_Witness ==
  /\ pc = "idle"
  /\ ~cfg.exists
  /\ result = [err |-> NoErr, requeueAfter |-> 0]
  /\ last = [verb |-> "Update", key |-> ConfigKey, res |-> "ok", at |-> "reconcileDelete.RemoveFinalizer"]
  /\ ~objs[DeploymentKey].exists
  /\ objs[ServiceKey].exists /\ objs[ServiceAccountKey].exists /\ objs[ConfigMapKey].exists
  /\ \E s \in SpecChoices :
       /\ ~objs[NamesUnderPrefix(s)[1]].exists
       /\ objs[NamesUnderPrefix(s)[2]].exists
       /\ objs[NamesUnderPrefix(s)[3]].exists

\* C30 (persisted phases and conditions): every status the controller
\* stores has Phase Deploying, Ready or Error (never Pending or Degraded)
\* and holds only conditions of type RBACConfigured or PluginDeployed, each
\* with Status True (never ConsolePluginRegistered, never False); and the
\* write of Phase = Error keeps every condition that was stored True before
\* it stored True.
C30_PersistedPhasesAndConditions ==
  [][ /\ ((Moves /\ last'.verb = "StatusUpdate" /\ last'.res = "ok") \/ cfg'.status # cfg.status)
           => (cfg'.exists
                 => /\ cfg'.status.phase \in {PhaseDeploying, PhaseReady, PhaseError}
                    /\ cfg'.status.phase \notin {PhasePending, PhaseDegraded, ""}
                    /\ \A i \in DOMAIN cfg'.status.conditions :
                         /\ cfg'.status.conditions[i].type
                              \in {ConditionRBACConfigured, ConditionPluginDeployed}
                         /\ cfg'.status.conditions[i].type # ConditionConsolePluginRegistered
                         /\ cfg'.status.conditions[i].status = "True")
      /\ (Moves /\ pc = "updateStatusError" /\ last'.res = "ok")
           => /\ cfg'.status.phase = PhaseError
              /\ \A i \in DOMAIN cfg.status.conditions :
                   cfg.status.conditions[i].status = "True"
                     => HasCondition(cfg'.status.conditions, cfg.status.conditions[i].type, "True") ]_vars

\* A Reconcile has failed and stored Phase = Error, and both conditions are
\* stored True next to it.
C30_Witness ==
  /\ pc = "idle"
  /\ result.err # NoErr
  /\ last = [verb |-> "StatusUpdate", key |-> ConfigKey, res |-> "ok", at |-> "updateStatusError"]
  /\ cfg.status.phase = PhaseError
  /\ HasCondition(cfg.status.conditions, ConditionRBACConfigured, "True")
  /\ HasCondition(cfg.status.conditions, ConditionPluginDeployed, "True")

====
